---- MODULE Spec2Model ----
(***************************************************************************)
(* Model of mcp/portfolio_mcp/server.py: the tool invocation layer of the  *)
(* Portfolio Tracker MCP server (validation, gateway, formatter, error     *)
(* classifier, dispatcher).                                                *)
(*                                                                         *)
(* Strings are sequences of segments.  A segment is either one character   *)
(* (a string of length one: everything json.dumps, str(int) and the        *)
(* number formatters produce, and every character of a response body) or a *)
(* literal of the source, kept whole.  Concatenation is \o.                *)
(*                                                                         *)
(* JSON values are records [t, n, s, items]:                               *)
(*   t = "null" | "bool" | "int" | "float" | "str" | "arr" | "obj"          *)
(*   n     the value of an int, 0/1 of a bool, the value of a float in     *)
(*         millionths (Micro)                                              *)
(*   s     the characters of a str                                         *)
(*   items the elements of an arr, the [k, val] members of an obj in       *)
(*         insertion order (a Python dict)                                 *)
(***************************************************************************)
EXTENDS Integers, Sequences, FiniteSets, TLC

\* Floats are fixed-point numbers, Micro units to 1.0.
Micro == 10 ^ 6

Min(a, b) == IF a < b THEN a ELSE b

Abs(a) == IF a < 0 THEN -a ELSE a

----------------------------------------------------------------------------
(* Characters and integers as text                                         *)

DigitChars == <<"0", "1", "2", "3", "4", "5", "6", "7", "8", "9">>

IsDigit(c) == \E d \in 1..10 : DigitChars[d] = c

DigitOf(c) == (CHOOSE d \in 1..10 : DigitChars[d] = c) - 1

\* the number of decimal digits of n >= 0
NumDigits(n) == 1 + Cardinality({k \in 1..9 : n >= 10 ^ k})

\* the w low decimal digits of n >= 0
DigitsOf(n, w) == [k \in 1..w |-> DigitChars[((n \div 10 ^ (w - k)) % 10) + 1]]

\* str(n) for n >= 0
NatToChars(n) == DigitsOf(n, NumDigits(n))

\* str(n) of a Python int
IntToChars(n) == IF n < 0 THEN <<"-">> \o NatToChars(-n) ELSE NatToChars(n)

\* drop trailing zeros, keeping at least one digit
StripZeros(cs) ==
    SubSeq(cs, 1, CHOOSE n \in 1..Len(cs) :
                      /\ \A k \in (n + 1)..Len(cs) : cs[k] = "0"
                      /\ (n = 1 \/ cs[n] # "0"))

\* repr(x) of a Python float holding m millionths (positional notation)
FloatToChars(m) ==
    (IF m < 0 THEN <<"-">> ELSE <<>>)
        \o NatToChars(Abs(m) \div Micro) \o <<".">>
        \o StripZeros(DigitsOf(Abs(m), 6))

----------------------------------------------------------------------------
(* JSON values                                                             *)

JNull == [t |-> "null", n |-> 0, s |-> <<>>, items |-> <<>>]

JBool(b) == [t |-> "bool", n |-> IF b THEN 1 ELSE 0, s |-> <<>>, items |-> <<>>]

JInt(k) == [t |-> "int", n |-> k, s |-> <<>>, items |-> <<>>]

JFloat(m) == [t |-> "float", n |-> m, s |-> <<>>, items |-> <<>>]

JStr(cs) == [t |-> "str", n |-> 0, s |-> cs, items |-> <<>>]

JArr(vs) == [t |-> "arr", n |-> 0, s |-> <<>>, items |-> vs]

JObj(ms) == [t |-> "obj", n |-> 0, s |-> <<>>, items |-> ms]

\* one member of an object
M(key, value) == [k |-> key, val |-> value]

HasKey(ms, key) == \E i \in 1..Len(ms) : ms[i].k = key

\* d[key] = value on a dict: an existing key keeps its place
DictPut(ms, key, value) ==
    IF HasKey(ms, key)
    THEN [i \in 1..Len(ms) |-> IF ms[i].k = key THEN M(key, value) ELSE ms[i]]
    ELSE Append(ms, M(key, value))

----------------------------------------------------------------------------
(* json.dumps(value, indent=2), and the compact text a backend sends       *)

Spaces(k) == [i \in 1..k |-> " "]

\* the line break and indentation before an item at nesting level lv; with
\* no indent (ind < 0) items follow each other directly
NewlineIndent(lv, ind) == IF ind < 0 THEN <<>> ELSE <<"\n">> \o Spaces(ind * lv)

RECURSIVE EscapeRange(_, _, _)
\* the characters lo..hi of the body of a JSON string literal: quote and
\* backslash are escaped
EscapeRange(cs, lo, hi) ==
    IF lo > hi THEN <<>>
    ELSE IF lo = hi
    THEN IF cs[lo] = "\"" \/ cs[lo] = "\\" THEN <<"\\", cs[lo]>> ELSE <<cs[lo]>>
    ELSE EscapeRange(cs, lo, (lo + hi) \div 2) \o EscapeRange(cs, (lo + hi) \div 2 + 1, hi)

\* the body of the JSON string literal of cs
EscapeChars(cs) ==
    IF \A k \in 1..Len(cs) : cs[k] # "\"" /\ cs[k] # "\\" THEN cs
    ELSE EscapeRange(cs, 1, Len(cs))

\* a string literal whose body is not escaped
QuoteChars_raw(cs) == <<"\"">> \o cs \o <<"\"">>

QuoteChars(cs) == <<"\"">> \o EscapeChars(cs) \o <<"\"">>

\* the separator after a key
KeySep(ind) == IF ind < 0 THEN <<":">> ELSE <<":", " ">>

RECURSIVE DumpsAt(_, _, _), DumpsItems(_, _, _, _, _), DumpsMembers(_, _, _, _, _)
\* the elements lo..hi of an array, comma-separated
DumpsItems(vs, lo, hi, lv, ind) ==
    IF lo = hi THEN DumpsAt(vs[lo], lv, ind)
    ELSE DumpsItems(vs, lo, (lo + hi) \div 2, lv, ind)
             \o <<",">> \o NewlineIndent(lv, ind)
             \o DumpsItems(vs, (lo + hi) \div 2 + 1, hi, lv, ind)

\* the members lo..hi of an object, comma-separated
DumpsMembers(ms, lo, hi, lv, ind) ==
    IF lo = hi THEN QuoteChars(ms[lo].k) \o KeySep(ind) \o DumpsAt(ms[lo].val, lv, ind)
    ELSE DumpsMembers(ms, lo, (lo + hi) \div 2, lv, ind)
             \o <<",">> \o NewlineIndent(lv, ind)
             \o DumpsMembers(ms, (lo + hi) \div 2 + 1, hi, lv, ind)

DumpsAt(v, lv, ind) ==
    CASE v.t = "null" -> <<"n", "u", "l", "l">>
      [] v.t = "bool" -> IF v.n = 1 THEN <<"t", "r", "u", "e">>
                         ELSE <<"f", "a", "l", "s", "e">>
      [] v.t = "int" -> IntToChars(v.n)
      [] v.t = "float" -> FloatToChars(v.n)
      [] v.t = "str" -> QuoteChars(v.s)
      [] v.t = "arr" ->
            IF v.items = <<>> THEN <<"[", "]">>
            ELSE <<"[">> \o NewlineIndent(lv + 1, ind)
                     \o DumpsItems(v.items, 1, Len(v.items), lv + 1, ind)
                     \o NewlineIndent(lv, ind) \o <<"]">>
      [] v.t = "obj" ->
            IF v.items = <<>> THEN <<"{", "}">>
            ELSE <<"{">> \o NewlineIndent(lv + 1, ind)
                     \o DumpsMembers(v.items, 1, Len(v.items), lv + 1, ind)
                     \o NewlineIndent(lv, ind) \o <<"}">>

\* json.dumps(data, indent=2)
json_dumps(v) == DumpsAt(v, 0, 2)

\* the body text of a backend response carrying v (no whitespace)
BodyText(v) == DumpsAt(v, 0, -1)

----------------------------------------------------------------------------
(* json.loads(text).  A parse result is [ok, val, pos], pos the index after *)
(* the value.  The text is first marked: for every index the number of     *)
(* string quotes up to it and the nesting depth of brackets up to it.  A   *)
(* value is then parsed from the range of the text it occupies             *)

ParseFail == [ok |-> FALSE, val |-> JNull, pos |-> 0]

ParseOk(v, p) == [ok |-> TRUE, val |-> v, pos |-> p]

Whitespace == {" ", "\n", "\t", "\r"}

\* the first index from i on whose character is not of the class In
SkipWhile(s, i, In(_)) ==
    IF i < 1 \/ i > Len(s) THEN i
    ELSE IF \A k \in i..Len(s) : In(s[k]) THEN Len(s) + 1
    ELSE CHOOSE j \in i..Len(s) : ~In(s[j]) /\ \A k \in i..(j - 1) : In(s[k])

\* s has the character c at i
CharAt(s, i, c) == i >= 1 /\ i <= Len(s) /\ s[i] = c

\* the index after the run of digits that starts at i
DigitsEnd(s, i) == SkipWhile(s, i, IsDigit)

RECURSIVE CharsToNat(_)
\* int(cs) of a digit string: the value of its first half, shifted, plus the
\* value of its second half
CharsToNat(cs) ==
    IF Len(cs) = 0 THEN 0
    ELSE IF Len(cs) = 1 THEN DigitOf(cs[1])
    ELSE CharsToNat(SubSeq(cs, 1, Len(cs) \div 2)) * 10 ^ (Len(cs) - Len(cs) \div 2)
             + CharsToNat(SubSeq(cs, Len(cs) \div 2 + 1, Len(cs)))

\* zero-pad a digit string on the right to width w
PadRight(cs, w) == cs \o [k \in 1..(w - Len(cs)) |-> "0"]

\* the number whose integer digits are s[a..b-1] and whose fraction digits
\* are s[b+1..c-1] (c = b: no fraction); at most six fraction digits are held
NumberAt(s, sign, a, b, c) ==
    IF b = a \/ c = b + 1 \/ c - b - 1 > 6 THEN ParseFail
    ELSE IF c > b
    THEN ParseOk(JFloat(sign * (CharsToNat(SubSeq(s, a, b - 1)) * Micro
                                   + CharsToNat(PadRight(SubSeq(s, b + 1, c - 1), 6)))), c)
    ELSE ParseOk(JInt(sign * CharsToNat(SubSeq(s, a, b - 1))), c)

\* the digits a..b-1, with the fraction that may follow them
DigitsAt(s, sign, a, b) ==
    NumberAt(s, sign, a, b, IF CharAt(s, b, ".") THEN DigitsEnd(s, b + 1) ELSE b)

\* the digits from a on
UnsignedAt(s, sign, a) == DigitsAt(s, sign, a, DigitsEnd(s, a))

\* a JSON number at i: -?digits(.digits)?  An integer literal is an int, a
\* literal with a fraction a float
ParseNumber(s, i) ==
    UnsignedAt(s, IF CharAt(s, i, "-") THEN -1 ELSE 1, IF CharAt(s, i, "-") THEN i + 1 ELSE i)

\* the parse result r when the value it read ends at b
EndsAt(r, b) == IF r.ok /\ r.pos = b + 1 THEN r ELSE ParseFail

\* the index at which the run of backslashes that ends right before j
\* starts (j when no backslash precedes j)
BackslashesFrom(s, j) ==
    CHOOSE b \in 1..j : (\A k \in b..(j - 1) : s[k] = "\\") /\ (b = 1 \/ s[b - 1] # "\\")

\* the character at j is escaped: an odd number of backslashes precedes it
Escaped(s, j) ==
    IF j = 1 \/ s[j - 1] # "\\" THEN FALSE ELSE (j - BackslashesFrom(s, j)) % 2 = 1

RECURSIVE Scan(_, _)
\* v added to itself shifted by step, by 2 step, by 4 step, ...
Scan(v, step) ==
    IF step >= Len(v) THEN v
    ELSE Scan([k \in 1..Len(v) |-> v[k] + (IF k > step THEN v[k - step] ELSE 0)] \o <<>>,
              2 * step)

\* the sums v[1] + ... + v[k], for every k
PrefixSums(v) == Scan(v \o <<>>, 1)

\* for every index, the number of string quotes up to it: odd inside a
\* string literal and at its opening quote
QuoteCounts(s) ==
    PrefixSums([k \in 1..Len(s) |-> IF s[k] = "\"" /\ ~Escaped(s, k) THEN 1 ELSE 0])

\* for every index, the number of brackets and braces open after it
Depths(s, quotes) ==
    PrefixSums([k \in 1..Len(s) |->
                    IF quotes[k] % 2 = 1 THEN 0
                    ELSE IF s[k] \in {"[", "{"} THEN 1
                    ELSE IF s[k] \in {"]", "}"} THEN -1
                    ELSE 0])

MarkDepths(s, quotes) == [s |-> s, quotes |-> quotes, depth |-> Depths(s, quotes)]

\* the text with its marks
Marked(s) == MarkDepths(s, QuoteCounts(s))

\* the first / the last index in a..b whose character is no whitespace
\* (b + 1 / a - 1 when there is none)
FirstIn(t, a, b) ==
    IF \A k \in a..b : t.s[k] \in Whitespace THEN b + 1
    ELSE CHOOSE j \in a..b : t.s[j] \notin Whitespace /\ \A k \in a..(j - 1) : t.s[k] \in Whitespace

LastIn(t, a, b) ==
    IF \A k \in a..b : t.s[k] \in Whitespace THEN a - 1
    ELSE CHOOSE j \in a..b : t.s[j] \notin Whitespace /\ \A k \in (j + 1)..b : t.s[k] \in Whitespace

\* the characters a string body s[i..j-1] stands for: a backslash that
\* escapes is dropped
Unescape(s, i, j) ==
    LET kept == SelectSeq([k \in 1..(j - i) |-> i + k - 1],
                          LAMBDA k : s[k] # "\\" \/ Escaped(s, k))
    IN  [m \in 1..Len(kept) |-> s[kept[m]]]

\* the quote at b closes the string literal that opens at a
ClosesString(t, a, b) ==
    /\ b > a /\ t.s[b] = "\""
    /\ t.quotes[a] % 2 = 1 /\ t.quotes[b] = t.quotes[a] + 1 /\ t.quotes[b - 1] = t.quotes[a]

\* the string literal a..b: its body holds no line break, and only a quote
\* or a backslash is escaped
StringIn(t, a, b) ==
    IF ~ClosesString(t, a, b) THEN ParseFail
    ELSE IF \E k \in (a + 1)..(b - 1) :
                \/ t.s[k] = "\n"
                \/ Escaped(t.s, k) /\ t.s[k] \notin {"\"", "\\"}
         THEN ParseFail
    ELSE ParseOk(JStr(Unescape(t.s, a + 1, b)), b + 1)

\* the bracket or brace at b closes the one at a
ClosesBracket(t, a, b) ==
    /\ b > a
    /\ t.depth[b] = t.depth[a] - 1
    /\ \A k \in a..(b - 1) : t.depth[k] >= t.depth[a]

\* the commas that separate the pieces of the container a..b
Separators(t, a, b) ==
    SelectSeq([k \in 1..(b - a - 1) |-> a + k],
              LAMBDA k : t.s[k] = "," /\ t.depth[k] = t.depth[a] /\ t.quotes[k] % 2 = 0)

\* the range of piece m of the container a..b with separators seps
PieceStart(a, seps, m) == IF m = 1 THEN a + 1 ELSE seps[m - 1] + 1

PieceEnd(b, seps, m) == IF m > Len(seps) THEN b - 1 ELSE seps[m] - 1

\* the parse results rs taken together
AllOk(rs) == \A m \in 1..Len(rs) : rs[m].ok

Values(rs) == [m \in 1..Len(rs) |-> rs[m].val]

\* the dict of a member list: a repeated key keeps its first place and its
\* last value
DictOf(ms) ==
    LET idx == SelectSeq([i \in 1..Len(ms) |-> i],
                         LAMBDA i : \A j \in 1..(i - 1) : ms[j].k # ms[i].k)
        last(key) == ms[CHOOSE i \in 1..Len(ms) :
                            ms[i].k = key /\ \A j \in (i + 1)..Len(ms) : ms[j].k # key].val
    IN  [n \in 1..Len(idx) |-> M(ms[idx[n]].k, last(ms[idx[n]].k))]

\* the array / the object a..b whose pieces parsed to rs
ArrayOf(rs, b) == IF AllOk(rs) THEN ParseOk(JArr(Values(rs)), b + 1) ELSE ParseFail

ObjectOf(rs, b) == IF AllOk(rs) THEN ParseOk(JObj(DictOf(Values(rs))), b + 1) ELSE ParseFail

\* the member with key and value
MemberOf(key, value) ==
    IF key.ok /\ value.ok THEN ParseOk(M(key.val.s, value.val), value.pos) ELSE ParseFail

\* the index of the quote that closes the string literal opening at a, in
\* a..b (0 when there is none)
KeyEnd(t, a, b) ==
    IF \E j \in (a + 1)..b : ClosesString(t, a, j)
    THEN CHOOSE j \in (a + 1)..b : ClosesString(t, a, j)
    ELSE 0

RECURSIVE ParseRange(_, _, _), ParseTrimmed(_, _, _), ItemsIn(_, _, _, _),
          MembersIn(_, _, _, _), MemberIn(_, _, _), MemberAt(_, _, _, _)
\* the elements of the array a..b, separated at seps
ItemsIn(t, a, b, seps) ==
    ArrayOf([m \in 1..(Len(seps) + 1) |->
                ParseRange(t, PieceStart(a, seps, m), PieceEnd(b, seps, m))] \o <<>>, b)

\* the member a..b whose key ends at the quote at e: "key" : value
MemberAt(t, a, b, e) ==
    IF e = 0 \/ ~CharAt(t.s, FirstIn(t, e + 1, b), ":") THEN ParseFail
    ELSE MemberOf(StringIn(t, a, e), ParseRange(t, FirstIn(t, e + 1, b) + 1, b))

\* the member of an object in a..b
MemberIn(t, a, b) ==
    IF FirstIn(t, a, b) > b \/ t.s[FirstIn(t, a, b)] # "\"" THEN ParseFail
    ELSE MemberAt(t, FirstIn(t, a, b), b, KeyEnd(t, FirstIn(t, a, b), b))

\* the members of the object a..b, separated at seps
MembersIn(t, a, b, seps) ==
    ObjectOf([m \in 1..(Len(seps) + 1) |->
                 MemberIn(t, PieceStart(a, seps, m), PieceEnd(b, seps, m))] \o <<>>, b)

\* the value that occupies a..b; the cases exclude each other by the
\* character at a
ParseTrimmed(t, a, b) ==
    CASE a > b -> ParseFail
      [] a <= b /\ t.s[a] = "\"" -> StringIn(t, a, b)
      [] a <= b /\ t.s[a] = "[" ->
            IF t.s[b] # "]" \/ ~ClosesBracket(t, a, b) THEN ParseFail
            ELSE IF FirstIn(t, a + 1, b - 1) = b THEN ParseOk(JArr(<<>>), b + 1)
            ELSE ItemsIn(t, a, b, Separators(t, a, b))
      [] a <= b /\ t.s[a] = "{" ->
            IF t.s[b] # "}" \/ ~ClosesBracket(t, a, b) THEN ParseFail
            ELSE IF FirstIn(t, a + 1, b - 1) = b THEN ParseOk(JObj(<<>>), b + 1)
            ELSE MembersIn(t, a, b, Separators(t, a, b))
      [] a <= b /\ SubSeq(t.s, a, b) = <<"n", "u", "l", "l">> -> ParseOk(JNull, b + 1)
      [] a <= b /\ SubSeq(t.s, a, b) = <<"t", "r", "u", "e">> -> ParseOk(JBool(TRUE), b + 1)
      [] a <= b /\ SubSeq(t.s, a, b) = <<"f", "a", "l", "s", "e">> -> ParseOk(JBool(FALSE), b + 1)
      [] OTHER -> EndsAt(ParseNumber(t.s, a), b)

\* the value that a..b holds between whitespace
ParseRange(t, a, b) == ParseTrimmed(t, FirstIn(t, a, b), LastIn(t, a, b))

\* json.loads(text): ok = FALSE stands for the ValueError it raises
json_loads(s) == ParseRange(Marked(s), 1, Len(s))

----------------------------------------------------------------------------
(* Python values and the exceptions their operations raise                 *)

\* a literal of the source as a string
Str(lit) == <<lit>>

\* s[:k]
Take(s, k) == SubSeq(s, 1, Min(Len(s), k))

\* s[-k:]
LastN(s, k) == SubSeq(s, Len(s) - Min(Len(s), k) + 1, Len(s))

RECURSIVE JoinRange(_, _, _)
\* "\n".join(lines[lo..hi])
JoinRange(lines, lo, hi) ==
    IF lo = hi THEN lines[lo]
    ELSE JoinRange(lines, lo, (lo + hi) \div 2) \o <<"\n">>
             \o JoinRange(lines, (lo + hi) \div 2 + 1, hi)

\* "\n".join(lines)
JoinLines(lines) == IF lines = <<>> THEN <<>> ELSE JoinRange(lines, 1, Len(lines))

\* no exception / an exception of class type with message msg; an
\* HTTPStatusError carries the response's status and text
NoExc == [type |-> "", msg |-> <<>>, status |-> 0, text |-> <<>>]

Exc(type, msg) == [type |-> type, msg |-> msg, status |-> 0, text |-> <<>>]

\* the first exception raised by a sequence of steps, NoExc when none raises
FirstExc(steps) ==
    IF \A i \in 1..Len(steps) : steps[i] = NoExc THEN NoExc
    ELSE steps[CHOOSE i \in 1..Len(steps) :
                   steps[i] # NoExc /\ \A j \in 1..(i - 1) : steps[j] = NoExc]

\* bool(v)
Truthy(v) ==
    CASE v.t = "null" -> FALSE
      [] v.t \in {"bool", "int", "float"} -> v.n # 0
      [] v.t = "str" -> v.s # <<>>
      [] OTHER -> v.items # <<>>

IsNumber(v) == v.t \in {"bool", "int", "float"}

\* a number in millionths
ToMicro(v) == IF v.t = "float" THEN v.n ELSE v.n * Micro

\* d.get(key, default): the value (d is a dict)
PyGet(d, key, default) ==
    IF d.t = "obj" /\ HasKey(d.items, key)
    THEN d.items[CHOOSE i \in 1..Len(d.items) : d.items[i].k = key].val
    ELSE default

\* d.get(...): the exception it raises on a value that is no dict
GetExc(d) ==
    IF d.t = "obj" THEN NoExc
    ELSE Exc("AttributeError", Str("object has no attribute 'get'"))

\* d[key]: the exception it raises
IndexExc(d, key) ==
    IF d.t = "obj"
    THEN IF HasKey(d.items, key) THEN NoExc ELSE Exc("KeyError", <<"'">> \o key \o <<"'">>)
    ELSE IF d.t \in {"str", "arr"}
    THEN Exc("TypeError", Str("indices must be integers or slices, not str"))
    ELSE Exc("TypeError", Str("object is not subscriptable"))

\* v[:k] and v[-k:]: the exception it raises
SliceExc(v) ==
    IF v.t \in {"str", "arr"} THEN NoExc
    ELSE IF v.t = "obj" THEN Exc("TypeError", Str("unhashable type: 'slice'"))
    ELSE Exc("TypeError", Str("object is not subscriptable"))

\* abs(v), v >= 0, v - w and a float format spec: the exception on a non-number
NumExc(v) ==
    IF IsNumber(v) THEN NoExc
    ELSE Exc("TypeError", Str("bad operand type for a number"))

\* for x in v: the exception it raises
IterExc(v) ==
    IF v.t \in {"str", "arr", "obj"} THEN NoExc
    ELSE Exc("TypeError", Str("object is not iterable"))

\* the items a for loop over v visits: a dict yields its keys, a str its
\* characters
IterItems(v) ==
    CASE v.t = "arr" -> v.items
      [] v.t = "obj" -> [i \in 1..Len(v.items) |-> JStr(v.items[i].k)]
      [] v.t = "str" -> [i \in 1..Len(v.s) |-> JStr(<<v.s[i]>>)]
      [] OTHER -> <<>>

\* len(v) of a sized value
PyLen(v) == IF v.t = "str" THEN Len(v.s) ELSE Len(v.items)

\* len(v): the exception it raises
LenExc(v) ==
    IF v.t \in {"str", "arr", "obj"} THEN NoExc
    ELSE Exc("TypeError", Str("object has no len()"))

RECURSIVE PyRepr(_), ReprItems(_, _), ReprMembers(_, _)
ReprItems(vs, i) ==
    IF i > Len(vs) THEN <<>>
    ELSE PyRepr(vs[i]) \o (IF i = Len(vs) THEN <<>> ELSE <<",", " ">>) \o ReprItems(vs, i + 1)

ReprMembers(ms, i) ==
    IF i > Len(ms) THEN <<>>
    ELSE <<"'">> \o ms[i].k \o <<"'", ":", " ">> \o PyRepr(ms[i].val)
             \o (IF i = Len(ms) THEN <<>> ELSE <<",", " ">>) \o ReprMembers(ms, i + 1)

\* repr(v)
PyRepr(v) ==
    CASE v.t = "null" -> Str("None")
      [] v.t = "bool" -> IF v.n = 1 THEN Str("True") ELSE Str("False")
      [] v.t = "int" -> IntToChars(v.n)
      [] v.t = "float" -> FloatToChars(v.n)
      [] v.t = "str" -> <<"'">> \o v.s \o <<"'">>
      [] v.t = "arr" -> <<"[">> \o ReprItems(v.items, 1) \o <<"]">>
      [] v.t = "obj" -> <<"{">> \o ReprMembers(v.items, 1) \o <<"}">>

\* str(v), what an f-string field without a format spec renders
PyStr(v) == IF v.t = "str" THEN v.s ELSE PyRepr(v)

\* v[:k] of a str or a list, as a value
PySlice(v, k) == IF v.t = "str" THEN JStr(Take(v.s, k)) ELSE JArr(Take(v.items, k))

----------------------------------------------------------------------------
(* Number formatting                                                       *)

Pow10(k) == 10 ^ k

\* a / unit rounded to the nearest integer, ties to even (a >= 0)
RoundDiv(a, unit) ==
    IF 2 * (a % unit) > unit \/ (2 * (a % unit) = unit /\ (a \div unit) % 2 = 1)
    THEN a \div unit + 1
    ELSE a \div unit

RECURSIVE GroupThousands(_)
\* the "," option of a format spec on the digits of the integer part
GroupThousands(cs) ==
    IF Len(cs) <= 3 THEN cs
    ELSE GroupThousands(SubSeq(cs, 1, Len(cs) - 3)) \o <<",">> \o SubSeq(cs, Len(cs) - 2, Len(cs))

\* q, a number of 10^-dd units, in positional notation with dd decimals
FixedDigits(q, dd, comma) ==
    (IF comma THEN GroupThousands(NatToChars(q \div Pow10(dd))) ELSE NatToChars(q \div Pow10(dd)))
        \o (IF dd = 0 THEN <<>> ELSE <<".">> \o DigitsOf(q, dd))

\* format(m millionths, ".<d>f") with d <= 6, or ",.<d>f" when comma; d = 8
\* appends the two decimals the fixed point does not hold
FormatFixed(m, d, comma) ==
    (IF m < 0 THEN <<"-">> ELSE <<>>)
        \o FixedDigits(RoundDiv(Abs(m), Pow10(6 - Min(d, 6))), Min(d, 6), comma)
        \o (IF d > 6 THEN <<"0", "0">> ELSE <<>>)

\* a test that leaves the value 1 in the lower tier: if abs(value) > 1
_fmt_usd_above_one(m) ==
    IF Abs(m) > Micro THEN <<"$">> \o FormatFixed(m, 2, TRUE)
    ELSE <<"$">> \o FormatFixed(m, 6, FALSE)

\* _fmt_usd(value), value in millionths
_fmt_usd(m) ==
    IF Abs(m) >= Micro THEN <<"$">> \o FormatFixed(m, 2, TRUE)
    ELSE <<"$">> \o FormatFixed(m, 6, FALSE)

\* _fmt_pct(value)
_fmt_pct(m) ==
    (IF m >= 0 THEN <<"+">> ELSE <<>>) \o FormatFixed(m, 2, FALSE) \o <<"%">>

\* _fmt_qty(value)
_fmt_qty(m) ==
    IF Abs(m) >= 100 * Micro THEN FormatFixed(m, 2, TRUE)
    ELSE IF Abs(m) >= Micro THEN FormatFixed(m, 4, TRUE)
    ELSE FormatFixed(m, 8, FALSE)

----------------------------------------------------------------------------
(* Gateway: the outcome of one request on the shared client is             *)
(* [exc, status, text]: a transport exception, or a response               *)

\* httpx.TimeoutException and its subclasses
TimeoutClasses == {"TimeoutException", "ConnectTimeout", "ReadTimeout", "WriteTimeout", "PoolTimeout"}

\* a computation's result: exc = NoExc and the value, or the exception raised
Ret(v) == [exc |-> NoExc, val |-> v]

Raise(e) == [exc |-> e, val |-> <<>>]

\* resp.raise_for_status(): the HTTPStatusError of a response that is not 2xx
HTTPStatusError(status, text) ==
    [type |-> "HTTPStatusError", msg |-> Str("Client or server error"), status |-> status, text |-> text]

\* the request _api_get / _api_post / _api_delete put on the wire
_api_get(path, query) == [method |-> "GET", path |-> path, params |-> query, json |-> <<>>]

_api_post(path, body) == [method |-> "POST", path |-> path, params |-> <<>>, json |-> body]

_api_delete(path, query) == [method |-> "DELETE", path |-> path, params |-> query, json |-> <<>>]

\* resp.json(): the parsed body, or the error of a body that is not JSON
response_json(parsed) ==
    IF parsed.ok THEN Ret(parsed.val) ELSE Raise(Exc("JSONDecodeError", Str("Expecting value")))

\* what an _api_* primitive does with the outcome of its one request:
\* the transport's exception propagates, a non-2xx status raises, and the
\* body is parsed
api_result(outcome) ==
    IF outcome.exc # NoExc THEN Raise(outcome.exc)
    ELSE IF outcome.status < 200 \/ outcome.status > 299
    THEN Raise(HTTPStatusError(outcome.status, outcome.text))
    ELSE response_json(json_loads(outcome.text))

\* the statements that follow a step: the step's exception propagates,
\* otherwise they run on its value
Then(r, Rest(_)) == IF r.exc # NoExc THEN r ELSE Rest(r.val)

----------------------------------------------------------------------------
(* Error Classifier                                                        *)

\* the length the raw response text is cut to
DetailCap == 200

ErrorKey == <<"e", "r", "r", "o", "r">>

ErrorPrefix == "Error: "

\* .get("error", "") on the parsed body
get_error(body) ==
    IF GetExc(body) # NoExc THEN Raise(GetExc(body)) ELSE Ret(PyGet(body, ErrorKey, JStr(<<>>)))

\* e.response.json().get("error", "")
detail_try(text) == Then(response_json(json_loads(text)), get_error)

\* an except clause that catches the JSON decoding error alone
detail_except_decode_only(tried, text) ==
    IF tried.exc = NoExc THEN Ret(PyStr(tried.val))
    ELSE IF tried.exc.type = "JSONDecodeError" THEN Ret(Take(text, DetailCap))
    ELSE Raise(tried.exc)

\* except Exception: detail = e.response.text[:200]
detail_except(tried, text) ==
    IF tried.exc = NoExc THEN Ret(PyStr(tried.val)) ELSE Ret(Take(text, DetailCap))

\* try: detail = ... except Exception: detail = ...; exc is the exception
\* that escapes the try statement
detail_of(text) == detail_except(detail_try(text), text)

\* the default template alone, whatever the status
status_message_default(status, detail) ==
    <<"API returned status ">> \o IntToChars(status) \o <<".", " ">> \o detail

\* messages.get(status, f'API returned status {status}. {detail}')
status_message(status, detail) ==
    CASE status = 401 ->
            <<"Authentication failed.", " Check your PORTFOLIO_API_KEY. Detail: ">> \o detail
      [] status = 403 -> <<"Permission denied.", " ">> \o detail
      [] status = 404 -> <<"Not found.", " ">> \o detail
      [] status = 429 -> <<"Rate limit exceeded.", " Wait a moment and retry.">>
      [] OTHER -> <<"API returned status ">> \o IntToChars(status) \o <<".", " ">> \o detail

\* the string returned for an HTTPStatusError once detail is evaluated
status_error(status, d) ==
    IF d.exc # NoExc THEN Raise(d.exc)
    ELSE Ret(<<ErrorPrefix>> \o status_message(status, d.val))

\* _handle_error(e) with API_BASE_URL = base
_handle_error(e, base) ==
    IF e.type = "HTTPStatusError"
    THEN status_error(e.status, detail_of(e.text))
    ELSE IF e.type \in TimeoutClasses
    THEN Ret(<<ErrorPrefix, "Request timed out.", " Is your Portfolio Tracker running?">>)
    ELSE IF e.type = "ConnectError"
    THEN Ret(<<ErrorPrefix, "Cannot connect to ">> \o base
                 \o <<".", " ", "Make sure your Portfolio Tracker Web is running.">>)
    ELSE Ret(<<ErrorPrefix, e.type, ": ">> \o e.msg)

\* a handler without its except clause
try_except_absent(body, base) == body

\* try: body  except Exception as e: return _handle_error(e)
try_except(body, base) == IF body.exc = NoExc THEN body ELSE _handle_error(body.exc, base)

----------------------------------------------------------------------------
(* Validation Layer: the pydantic input models.  A raw input gives each    *)
(* field as None (absent) or Some(value); a validation result is           *)
(* [ok, params, field], field naming the first field that failed           *)

None == <<>>

Some(v) == <<v>>

\* the value of an optional field, or its default
OrDefault(opt, default) == IF opt = None THEN default ELSE opt[1]

ResponseFormat == {"markdown", "json"}

TaxStrategy == {"FIFO", "LIFO", "HIFO", "LOFO"}

TransactionType == {"Deposit", "Withdrawal", "Swap"}

Valid(params) == [ok |-> TRUE, params |-> params, field |-> ""]

Invalid(field) == [ok |-> FALSE, params |-> <<>>, field |-> field]

\* the first field whose constraint fails, "" when none does
FirstInvalid(checks) ==
    IF \A i \in 1..Len(checks) : checks[i][2] THEN ""
    ELSE checks[CHOOSE i \in 1..Len(checks) :
                    ~checks[i][2] /\ \A j \in 1..(i - 1) : checks[j][2]][1]

LowerCase == <<"a", "b", "c", "d", "e", "f", "g", "h", "i", "j", "k", "l", "m",
               "n", "o", "p", "q", "r", "s", "t", "u", "v", "w", "x", "y", "z">>

UpperCase == <<"A", "B", "C", "D", "E", "F", "G", "H", "I", "J", "K", "L", "M",
               "N", "O", "P", "Q", "R", "S", "T", "U", "V", "W", "X", "Y", "Z">>

\* str.upper()
Upper(cs) ==
    [i \in 1..Len(cs) |->
        IF \E j \in 1..26 : LowerCase[j] = cs[i]
        THEN UpperCase[CHOOSE j \in 1..26 : LowerCase[j] = cs[i]]
        ELSE cs[i]]

RECURSIVE LStrip(_), RStrip(_)
LStrip(cs) == IF cs # <<>> /\ Head(cs) \in Whitespace THEN LStrip(Tail(cs)) ELSE cs

RStrip(cs) ==
    IF cs # <<>> /\ cs[Len(cs)] \in Whitespace THEN RStrip(SubSeq(cs, 1, Len(cs) - 1)) ELSE cs

\* str.strip(), which str_strip_whitespace applies to every str field
Strip(cs) == RStrip(LStrip(cs))

RECURSIVE Split(_, _, _)
\* cs.split(sep): cur is the segment being read
Split(cs, sep, cur) ==
    IF cs = <<>> THEN <<cur>>
    ELSE IF Head(cs) = sep THEN <<cur>> \o Split(Tail(cs), sep, <<>>)
    ELSE Split(Tail(cs), sep, Append(cur, Head(cs)))

RECURSIVE Join(_, _)
\* sep.join(parts)
Join(sep, parts) ==
    IF parts = <<>> THEN <<>>
    ELSE IF Len(parts) = 1 THEN parts[1]
    ELSE parts[1] \o <<sep>> \o Join(sep, Tail(parts))

RECURSIVE StripUpperKept(_)
\* s.strip().upper() for s in parts if s.strip()
StripUpperKept(parts) ==
    IF parts = <<>> THEN <<>>
    ELSE (IF Strip(Head(parts)) # <<>> THEN <<Upper(Strip(Head(parts)))>> ELSE <<>>)
             \o StripUpperKept(Tail(parts))

\* GetPricesInput.validate_symbols, GetPriceHistoryInput.validate_symbols
validate_symbols(v) == Join(",", StripUpperKept(Split(v, ",", <<>>)))

\* a validator that hands the value on as it came
uppercase_asset_as_given(v) == v

\* AddTransactionInput.uppercase_asset (mode="before")
uppercase_asset(v) == Upper(v)

\* response_format: ResponseFormat = MARKDOWN
FormatOk(raw) == raw.response_format = None \/ raw.response_format[1] \in ResponseFormat

GetHoldingsInput(raw) ==
    LET bad == FirstInvalid(<<
            <<"portfolio_id", OrDefault(raw.portfolio_id, 1) >= 1>>,
            <<"response_format", FormatOk(raw)>> >>)
    IN  IF bad # "" THEN Invalid(bad)
        ELSE Valid([portfolio_id |-> OrDefault(raw.portfolio_id, 1),
                    response_format |-> OrDefault(raw.response_format, "markdown")])

GetHistoryInput(raw) ==
    LET bad == FirstInvalid(<<
            <<"portfolio_id", OrDefault(raw.portfolio_id, 1) >= 1>>,
            <<"days", OrDefault(raw.days, 7) >= 1 /\ OrDefault(raw.days, 7) <= 90>>,
            <<"response_format", FormatOk(raw)>> >>)
    IN  IF bad # "" THEN Invalid(bad)
        ELSE Valid([portfolio_id |-> OrDefault(raw.portfolio_id, 1),
                    days |-> OrDefault(raw.days, 7),
                    response_format |-> OrDefault(raw.response_format, "markdown")])

ListTransactionsInput(raw) ==
    IF ~FormatOk(raw) THEN Invalid("response_format")
    ELSE Valid([portfolio_id |-> raw.portfolio_id,
                response_format |-> OrDefault(raw.response_format, "markdown")])

\* a str field that may be absent: stripped, and uppercased first when asset
OptStr(opt, asset) ==
    IF opt = None THEN None
    ELSE Some(Strip(IF asset THEN uppercase_asset(opt[1]) ELSE opt[1]))

AddTransactionInput(raw) ==
    LET to_asset == OptStr(raw.to_asset, TRUE)
        from_asset == OptStr(raw.from_asset, TRUE)
        notes == OptStr(raw.notes, FALSE)
        bad == FirstInvalid(<<
            <<"portfolio_id", OrDefault(raw.portfolio_id, 1) >= 1>>,
            <<"type", raw.type # None /\ raw.type[1] \in TransactionType>>,
            <<"datetime", raw.datetime # None>>,
            <<"to_asset", to_asset # None /\ Len(to_asset[1]) >= 1 /\ Len(to_asset[1]) <= 10>>,
            <<"to_quantity", raw.to_quantity # None /\ raw.to_quantity[1] >= 0>>,
            <<"from_asset", from_asset = None \/ Len(from_asset[1]) <= 10>>,
            <<"from_quantity", raw.from_quantity = None \/ raw.from_quantity[1] >= 0>>,
            <<"notes", notes = None \/ Len(notes[1]) <= 500>> >>)
    IN  IF bad # "" THEN Invalid(bad)
        ELSE Valid([portfolio_id |-> OrDefault(raw.portfolio_id, 1),
                    type |-> raw.type[1],
                    datetime |-> Strip(raw.datetime[1]),
                    to_asset |-> to_asset[1],
                    to_quantity |-> raw.to_quantity[1],
                    to_price_usd |-> raw.to_price_usd,
                    from_asset |-> from_asset,
                    from_quantity |-> raw.from_quantity,
                    from_price_usd |-> raw.from_price_usd,
                    fees_usd |-> raw.fees_usd,
                    notes |-> notes])

DeleteTransactionInput(raw) ==
    IF raw.transaction_id = None \/ raw.transaction_id[1] < 1 THEN Invalid("transaction_id")
    ELSE Valid([transaction_id |-> raw.transaction_id[1]])

GetCashflowInput(raw) == GetHoldingsInput(raw)

GetTaxReportInput(raw) ==
    LET year == OrDefault(raw.year, 2025)
        bad == FirstInvalid(<<
            <<"year", year >= 2015 /\ year <= 2030>>,
            <<"asset_strategy", OrDefault(raw.asset_strategy, "FIFO") \in TaxStrategy>>,
            <<"cash_strategy", OrDefault(raw.cash_strategy, "FIFO") \in TaxStrategy>>,
            <<"response_format", FormatOk(raw)>> >>)
    IN  IF bad # "" THEN Invalid(bad)
        ELSE Valid([year |-> year,
                    portfolio_id |-> raw.portfolio_id,
                    asset_strategy |-> OrDefault(raw.asset_strategy, "FIFO"),
                    cash_strategy |-> OrDefault(raw.cash_strategy, "FIFO"),
                    response_format |-> OrDefault(raw.response_format, "markdown")])

\* GetPricesInput.symbols: max_length
SymbolsMax == 200

\* symbols: str, min_length=1, max_length=200, then validate_symbols
GetPricesInput(raw) ==
    IF raw.symbols = None \/ Len(Strip(raw.symbols[1])) < 1
           \/ Len(Strip(raw.symbols[1])) > SymbolsMax
    THEN Invalid("symbols")
    ELSE Valid([symbols |-> validate_symbols(Strip(raw.symbols[1]))])

\* symbols: str, min_length=1, then validate_symbols
GetPriceHistoryInput(raw) ==
    LET bad == FirstInvalid(<<
            <<"symbols", raw.symbols # None /\ Len(Strip(raw.symbols[1])) >= 1>>,
            <<"start_timestamp", raw.start_timestamp # None>>,
            <<"end_timestamp", raw.end_timestamp # None>> >>)
    IN  IF bad # "" THEN Invalid(bad)
        ELSE Valid([symbols |-> validate_symbols(Strip(raw.symbols[1])),
                    start_timestamp |-> raw.start_timestamp[1],
                    end_timestamp |-> raw.end_timestamp[1]])

ListPortfoliosInput(raw) ==
    IF ~FormatOk(raw) THEN Invalid("response_format")
    ELSE Valid([response_format |-> OrDefault(raw.response_format, "markdown")])

----------------------------------------------------------------------------
(* Formatter: what each handler does with the parsed payload `data`.  Each *)
(* operator follows its handler statement by statement and yields Ret(the  *)
(* string returned) or Raise(the first exception a statement raises)       *)

\* the number of transactions / taxable events a narrative lists
TxCap == 50

EventCap == 30

\* the characters of a datetime that are shown
DateLen == 10

\* d[key] as a value (IndexExc tells whether it raises)
PyIndex(d, key) == PyGet(d, key, JNull)

Usd(v) == _fmt_usd(ToMicro(v))

Pct(v) == _fmt_pct(ToMicro(v))

Qty(v) == _fmt_qty(ToMicro(v))

RECURSIVE Flatten(_)
\* the lines of all items, in order
Flatten(ls) == IF ls = <<>> THEN <<>> ELSE Head(ls) \o Flatten(Tail(ls))

\* what a loop body yields on each item, in order
Each(items, Body(_)) == [i \in 1..Len(items) |-> Body(items[i])]

\* the first exception a loop over items raises, ExcOf(x) that of item x
LoopExc(items, ExcOf(_)) == FirstExc([i \in 1..Len(items) |-> ExcOf(items[i])])

\* items[i] where the index exists (where not, the indexing has raised)
ItemAt(items, i) == IF i \in 1..Len(items) THEN items[i] ELSE JNull

\* d.get(key, 0)
Get0(d, key) == PyGet(d, Str(key), JInt(0))

\* return "\n".join(lines), unless a statement before it raised e
Lines(e, lines) == IF e # NoExc THEN Raise(e) ELSE Ret(JoinLines(lines))

\* if params.response_format == ResponseFormat.JSON: return json.dumps(data, indent=2)
IsJson(params) == params.response_format = "json"

\* ---- portfolio_get_holdings ----

HoldingExc(h) ==
    FirstExc(<<GetExc(h), NumExc(Get0(h, "pnl")),
               IndexExc(h, Str("asset")),
               IndexExc(h, Str("quantity")), NumExc(PyIndex(h, Str("quantity"))),
               IndexExc(h, Str("currentPrice")), NumExc(PyIndex(h, Str("currentPrice"))),
               IndexExc(h, Str("currentValue")), NumExc(PyIndex(h, Str("currentValue"))),
               IndexExc(h, Str("costBasis")), NumExc(PyIndex(h, Str("costBasis"))),
               IndexExc(h, Str("pnl")), NumExc(PyIndex(h, Str("pnl"))),
               IndexExc(h, Str("pnlPercent")), NumExc(PyIndex(h, Str("pnlPercent"))),
               NumExc(Get0(h, "change7dPercent"))>>)

HoldingLines(h) ==
    << <<"### ">> \o PyStr(PyIndex(h, Str("asset"))),
       <<"- Quantity: ">> \o Qty(PyIndex(h, Str("quantity"))),
       <<"- Price: ">> \o Usd(PyIndex(h, Str("currentPrice"))),
       <<"- Value: ">> \o Usd(PyIndex(h, Str("currentValue"))),
       <<"- Cost Basis: ">> \o Usd(PyIndex(h, Str("costBasis"))),
       <<"- P&L: ">> \o (IF ToMicro(Get0(h, "pnl")) >= 0 THEN <<"+">> ELSE <<>>)
           \o Usd(PyIndex(h, Str("pnl"))) \o <<" (">>
           \o Pct(PyIndex(h, Str("pnlPercent"))) \o <<")">>,
       <<"- 7d Change: ">> \o Pct(Get0(h, "change7dPercent")),
       <<>> >>

AllocationExc(a) ==
    FirstExc(<<IndexExc(a, Str("asset")),
               IndexExc(a, Str("percentage")), NumExc(PyIndex(a, Str("percentage"))),
               IndexExc(a, Str("value")), NumExc(PyIndex(a, Str("value")))>>)

AllocationLine(a) ==
    <<"- **">> \o PyStr(PyIndex(a, Str("asset"))) \o <<"**: ">>
        \o FormatFixed(ToMicro(PyIndex(a, Str("percentage"))), 1, FALSE) \o <<"% (">>
        \o Usd(PyIndex(a, Str("value"))) \o <<")">>

\* the first exception the summary lines raise
SummaryExc(summary) ==
    FirstExc(<<GetExc(summary),
               NumExc(Get0(summary, "totalValue")), NumExc(Get0(summary, "totalCost")),
               NumExc(Get0(summary, "totalPnl")), NumExc(Get0(summary, "totalPnlPercent")),
               NumExc(Get0(summary, "totalChange7d")), NumExc(Get0(summary, "totalChange7dPercent")),
               NumExc(Get0(summary, "btcPrice"))>>)

SummaryLines(summary) ==
    << Str("# Portfolio Summary"), <<>>,
       <<"**Total Value:** ">> \o Usd(Get0(summary, "totalValue")),
       <<"**Total Cost:** ">> \o Usd(Get0(summary, "totalCost")),
       <<"**Total P&L:** ">> \o Usd(Get0(summary, "totalPnl")) \o <<" (">>
           \o Pct(Get0(summary, "totalPnlPercent")) \o <<")">>,
       <<"**7d Change:** ">> \o Usd(Get0(summary, "totalChange7d")) \o <<" (">>
           \o Pct(Get0(summary, "totalChange7dPercent")) \o <<")">>,
       <<"**BTC Price:** ">> \o Usd(Get0(summary, "btcPrice")),
       <<>>, Str("## Holdings"), <<>> >>

\* the first exception raised from the summary lines on
HoldingsExc(summary, holdings, allocation) ==
    FirstExc(<<SummaryExc(summary),
               IterExc(holdings), LoopExc(IterItems(holdings), HoldingExc),
               IF Truthy(allocation)
               THEN FirstExc(<<IterExc(allocation), LoopExc(IterItems(allocation), AllocationExc)>>)
               ELSE NoExc>>)

HoldingsLines(summary, holdings, allocation) ==
    SummaryLines(summary)
        \o Flatten(Each(IterItems(holdings), HoldingLines))
        \o (IF Truthy(allocation)
            THEN <<Str("## Allocation"), <<>> >>
                     \o Each(IterItems(allocation), AllocationLine) \o << <<>> >>
            ELSE <<>>)

\* the handler from summary = data.get("summary", {}) on
holdings_narrative(summary, holdings, allocation) ==
    IF ~Truthy(holdings) THEN Ret(Str("Portfolio is empty - no holdings found."))
    ELSE Lines(HoldingsExc(summary, holdings, allocation),
               HoldingsLines(summary, holdings, allocation))

holdings_format(params, data) ==
    IF IsJson(params) THEN Ret(json_dumps(data))
    ELSE IF GetExc(data) # NoExc THEN Raise(GetExc(data))
    ELSE holdings_narrative(PyGet(data, Str("summary"), JObj(<<>>)),
                            PyGet(data, Str("holdings"), JArr(<<>>)),
                            PyGet(data, Str("allocation"), JArr(<<>>)))

\* ---- portfolio_get_history ----

\* v[0] and v[-1] of a truthy value: the exception raised
ItemExc(v) ==
    IF v.t \in {"str", "arr"} THEN NoExc
    ELSE IF v.t = "obj" THEN Exc("KeyError", <<"0">>)
    ELSE Exc("TypeError", Str("object is not subscriptable"))

\* the quotient a / b to six decimals, in millionths (a >= 0, b > 0), by long
\* division
RECURSIVE FracDigits(_, _, _)
FracDigits(r, b, k) ==
    IF k = 0 THEN 0 ELSE ((r * 10) \div b) * Pow10(k - 1) + FracDigits((r * 10) % b, b, k - 1)

DivMicro(a, b) == (a \div b) * Micro + FracDigits(a % b, b, 6)

\* (change / first_val * 100) if first_val > 0 else 0, in millionths
change_pct(change, first_val) ==
    IF first_val > 0
    THEN (IF change < 0 THEN -1 ELSE 1) * DivMicro(Abs(change) * 100, first_val)
    ELSE 0

HistoryEntryExc(entry) ==
    FirstExc(<<IndexExc(entry, Str("date")), IndexExc(entry, Str("totalValue")),
               NumExc(PyIndex(entry, Str("totalValue")))>>)

HistoryEntryLine(entry) ==
    <<"- ">> \o PyStr(PyIndex(entry, Str("date"))) \o <<": ">> \o Usd(PyIndex(entry, Str("totalValue")))

\* the first exception raised after the emptiness test; first = history[0],
\* last = history[-1]
HistoryExc(history, first, last) ==
    FirstExc(<<ItemExc(history),
               IndexExc(first, Str("totalValue")), IndexExc(last, Str("totalValue")),
               NumExc(PyIndex(last, Str("totalValue"))), NumExc(PyIndex(first, Str("totalValue"))),
               IndexExc(first, Str("date")), IndexExc(last, Str("date")),
               LoopExc(IterItems(history), HistoryEntryExc)>>)

\* f"**Change:** {_fmt_usd(change)} ({_fmt_pct(change_pct)})"
ChangeLine(change, first_val) ==
    <<"**Change:** ">> \o _fmt_usd(change) \o <<" (">> \o _fmt_pct(change_pct(change, first_val)) \o <<")">>

HistoryLines(days, history, first, last) ==
    << <<"# Portfolio Value History (">> \o IntToChars(days) \o <<" days)">>,
       <<>>,
       <<"**Period:** ">> \o PyStr(PyIndex(first, Str("date"))) \o <<" to ">>
           \o PyStr(PyIndex(last, Str("date"))),
       <<"**Start:** ">> \o Usd(PyIndex(first, Str("totalValue"))) \o <<" | **End:** ">>
           \o Usd(PyIndex(last, Str("totalValue"))),
       ChangeLine(ToMicro(PyIndex(last, Str("totalValue"))) - ToMicro(PyIndex(first, Str("totalValue"))),
                  ToMicro(PyIndex(first, Str("totalValue")))),
       <<>> >>
        \o Each(IterItems(history), HistoryEntryLine)

\* the handler from history = data.get("history", []) on; hs are the
\* entries of history
history_narrative(days, history, hs) ==
    IF ~Truthy(history) THEN Ret(Str("No portfolio history available for this period."))
    ELSE Lines(HistoryExc(history, ItemAt(hs, 1), ItemAt(hs, Len(hs))),
               HistoryLines(days, history, ItemAt(hs, 1), ItemAt(hs, Len(hs))))

history_entries(days, history) == history_narrative(days, history, IterItems(history))

history_format(params, data) ==
    IF IsJson(params) THEN Ret(json_dumps(data))
    ELSE IF GetExc(data) # NoExc THEN Raise(GetExc(data))
    ELSE history_entries(params.days, PyGet(data, Str("history"), JArr(<<>>)))

\* ---- portfolio_list_portfolios ----

PortfolioExc(p) == FirstExc(<<IndexExc(p, Str("name")), IndexExc(p, Str("id")), GetExc(p)>>)

PortfolioLine(p) ==
    <<"- **">> \o PyStr(PyIndex(p, Str("name"))) \o <<"** (ID: ">>
        \o PyStr(PyIndex(p, Str("id"))) \o <<") - created ">>
        \o PyStr(PyGet(p, Str("createdAt"), JStr(Str("N/A"))))

portfolios_format(params, data) ==
    IF IsJson(params) THEN Ret(json_dumps(data))
    ELSE IF ~Truthy(data) THEN Ret(Str("No portfolios found."))
    ELSE Lines(FirstExc(<<IterExc(data), LoopExc(IterItems(data), PortfolioExc)>>),
               <<Str("# Your Portfolios"), <<>> >> \o Each(IterItems(data), PortfolioLine))

\* ---- portfolio_list_transactions ----

\* tx.get("type", "?") == "Swap" and the like
IsType(tx, name) == PyGet(tx, Str("type"), JStr(Str("?"))) = JStr(Str(name))

\* the first exception the loop body raises on tx
TxExc(tx) ==
    FirstExc(<<GetExc(tx), SliceExc(PyGet(tx, Str("datetime"), JStr(<<>>))),
               IF IsType(tx, "Swap")
               THEN FirstExc(<<NumExc(Get0(tx, "fromQuantity")), NumExc(Get0(tx, "toQuantity"))>>)
               ELSE IF IsType(tx, "Deposit")
               THEN FirstExc(<<NumExc(Get0(tx, "toQuantity")),
                               IF Truthy(PyGet(tx, Str("toPriceUsd"), JNull))
                               THEN NumExc(PyIndex(tx, Str("toPriceUsd"))) ELSE NoExc>>)
               ELSE NumExc(Get0(tx, "toQuantity")),
               IF Truthy(PyGet(tx, Str("feesUsd"), JNull))
               THEN NumExc(PyIndex(tx, Str("feesUsd"))) ELSE NoExc,
               IndexExc(tx, Str("id"))>>)

\* desc, by transaction type
TxDescOf(tx, to_qty, to_asset) ==
    IF IsType(tx, "Swap")
    THEN <<"Swap ">> \o Qty(Get0(tx, "fromQuantity")) \o <<" ">>
             \o PyStr(PyGet(tx, Str("fromAsset"), JStr(Str("?"))))
             \o <<" -> ">> \o to_qty \o <<" ">> \o to_asset
    ELSE IF IsType(tx, "Deposit")
    THEN <<"Deposit ">> \o to_qty \o <<" ">> \o to_asset
             \o (IF Truthy(PyGet(tx, Str("toPriceUsd"), JNull))
                 THEN <<" @ ">> \o Usd(PyIndex(tx, Str("toPriceUsd"))) ELSE <<>>)
    ELSE <<"Withdraw ">> \o to_qty \o <<" ">> \o to_asset

\* every branch renders _fmt_qty(tx.get("toQuantity", 0)) and tx.get("toAsset", "?")
TxDesc(tx) ==
    TxDescOf(tx, Qty(Get0(tx, "toQuantity")), PyStr(PyGet(tx, Str("toAsset"), JStr(Str("?")))))

\* the line appended for tx
TxLine(tx) ==
    <<"- **">> \o PyStr(PySlice(PyGet(tx, Str("datetime"), JStr(<<>>)), DateLen))
        \o <<"** [">> \o PyStr(PyGet(tx, Str("type"), JStr(Str("?")))) \o <<"] ">>
        \o TxDesc(tx)
        \o (IF Truthy(PyGet(tx, Str("feesUsd"), JNull))
            THEN <<" (fees: ">> \o Usd(PyIndex(tx, Str("feesUsd"))) \o <<")">> ELSE <<>>)
        \o (IF Truthy(PyGet(tx, Str("notes"), JNull))
            THEN <<" - ">> \o PyStr(PyIndex(tx, Str("notes"))) ELSE <<>>)
        \o <<" (ID: ">> \o PyStr(PyIndex(tx, Str("id"))) \o <<")">>

\* f"# Transactions ({len(data)} total)"
TxHeader(n) == <<"# Transactions (">> \o IntToChars(n) \o <<" total)">>

\* f"\n_Showing last 50 of {len(data)} transactions. Use JSON format for all._"
TxNotice(n) ==
    <<"\n_Showing last 50 of ">> \o IntToChars(n) \o <<" transactions. Use JSON format for all._">>

\* data[:50]
TxShown_first(data) == Take(IterItems(data), TxCap)

\* data[-50:]
TxShown(data) == LastN(IterItems(data), TxCap)

\* a notice from the cap on
TxTruncated_from_cap(n) == n >= TxCap

\* if len(data) > 50
TxTruncated(n) == n > TxCap

\* the lines of the narrative: n = len(data), shown = data[-50:]
TxLines(n, shown) ==
    <<TxHeader(n), <<>> >>
        \o Each(shown, TxLine)
        \o (IF TxTruncated(n) THEN <<TxNotice(n)>> ELSE <<>>)

transactions_format(params, data) ==
    IF IsJson(params) THEN Ret(json_dumps(data))
    ELSE IF ~Truthy(data) THEN Ret(Str("No transactions found."))
    ELSE Lines(FirstExc(<<LenExc(data), SliceExc(data), LoopExc(TxShown(data), TxExc)>>),
               TxLines(PyLen(data), TxShown(data)))

\* query_params of portfolio_list_transactions
transactions_query(params) ==
    IF params.portfolio_id # None
    THEN <<M(Str("portfolioId"), JInt(params.portfolio_id[1]))>> ELSE <<>>

\* ---- portfolio_add_transaction ----

\* a test of the value's truth: if params.x: body[key] = params.x
PutIf_truthy(body, opt, key, value) ==
    IF opt # None /\ Truthy(value) THEN DictPut(body, Str(key), value) ELSE body

\* body[key] = value if the optional field is not None
PutIf(body, opt, key, value) == IF opt # None THEN DictPut(body, Str(key), value) ELSE body

add_transaction_body(params) ==
    LET b0 == <<M(Str("portfolioId"), JInt(params.portfolio_id)),
                M(Str("type"), JStr(Str(params.type))),
                M(Str("datetime"), JStr(params.datetime)),
                M(Str("toAsset"), JStr(params.to_asset)),
                M(Str("toQuantity"), JFloat(params.to_quantity))>>
        b1 == PutIf(b0, params.to_price_usd, "toPriceUsd", JFloat(OrDefault(params.to_price_usd, 0)))
        b2 == PutIf(b1, params.from_asset, "fromAsset", JStr(OrDefault(params.from_asset, <<>>)))
        b3 == PutIf(b2, params.from_quantity, "fromQuantity", JFloat(OrDefault(params.from_quantity, 0)))
        b4 == PutIf(b3, params.from_price_usd, "fromPriceUsd", JFloat(OrDefault(params.from_price_usd, 0)))
        b5 == PutIf(b4, params.fees_usd, "feesUsd", JFloat(OrDefault(params.fees_usd, 0)))
    IN  PutIf(b5, params.notes, "notes", JStr(OrDefault(params.notes, <<>>)))

add_transaction_format(params, result) ==
    IF GetExc(result) # NoExc THEN Raise(GetExc(result))
    ELSE Ret(<<"Transaction created (ID: ">> \o PyStr(PyGet(result, Str("id"), JStr(Str("?"))))
                 \o <<"). ", "Type: ", params.type, ", ", "Asset: ">>
                 \o FloatToChars(params.to_quantity) \o <<" ">> \o params.to_asset
                 \o (IF params.to_price_usd # None /\ params.to_price_usd[1] # 0
                     THEN <<" @ ">> \o _fmt_usd(params.to_price_usd[1]) ELSE <<>>))

\* ---- portfolio_delete_transaction ----

delete_transaction_format(params, result) ==
    Ret(<<"Transaction ">> \o IntToChars(params.transaction_id) \o <<" deleted successfully.">>)

\* ---- sorted(d.items()) ----

\* characters in code-point order
Alphabet == DigitChars \o UpperCase \o LowerCase

\* the place of c in cs, 0 when it has none
IndexIn(cs, c) == IF \E i \in 1..Len(cs) : cs[i] = c THEN CHOOSE i \in 1..Len(cs) : cs[i] = c ELSE 0

Rank(c) == IndexIn(Alphabet, c)

RECURSIVE StrLess(_, _)
\* a < b on str
StrLess(a, b) ==
    IF b = <<>> THEN FALSE
    ELSE IF a = <<>> THEN TRUE
    ELSE IF Head(a) = Head(b) THEN StrLess(Tail(a), Tail(b))
    ELSE Rank(Head(a)) < Rank(Head(b))

\* the index of the member with the least key (keys are distinct)
LeastKey(ms) == CHOOSE i \in 1..Len(ms) : \A j \in 1..Len(ms) : j = i \/ StrLess(ms[i].k, ms[j].k)

RECURSIVE SortedItems(_), SortedFrom(_, _)
\* member i, then the other members sorted
SortedFrom(ms, i) == <<ms[i]>> \o SortedItems(SubSeq(ms, 1, i - 1) \o SubSeq(ms, i + 1, Len(ms)))

\* sorted(d.items()): the members by key, ascending
SortedItems(ms) == IF ms = <<>> THEN <<>> ELSE SortedFrom(ms, LeastKey(ms))

\* the pairs a loop over sorted(d.items()) visits
ItemsOf(d) == IF d.t = "obj" THEN SortedItems(d.items) ELSE <<>>

\* d.items(): the exception raised on a value that is no dict
ItemsExc(d) ==
    IF d.t = "obj" THEN NoExc
    ELSE Exc("AttributeError", Str("object has no attribute 'items'"))

\* ---- portfolio_get_cashflow ----

\* flow.get("netFlow", flow.get("totalIn", 0) - flow.get("totalOut", 0)), in millionths
YearNet(flow) ==
    ToMicro(PyGet(flow, Str("netFlow"),
                  JFloat(ToMicro(Get0(flow, "totalIn")) - ToMicro(Get0(flow, "totalOut")))))

\* the first exception the loop body raises on the pair (year, flow)
YearExc(pair) ==
    FirstExc(<<GetExc(pair.val), NumExc(Get0(pair.val, "totalIn")),
               NumExc(Get0(pair.val, "totalOut")), NumExc(Get0(pair.val, "netFlow"))>>)

YearLine(pair) == <<"- **">> \o pair.k \o <<"**: Net ">> \o _fmt_usd(YearNet(pair.val))

CashflowExc(sm, yearly) ==
    FirstExc(<<GetExc(sm),
               NumExc(Get0(sm, "totalMoneyIn")), NumExc(Get0(sm, "totalMoneyOut")),
               NumExc(Get0(sm, "netMoneyFlow")),
               NumExc(Get0(sm, "totalBankDeposits")), NumExc(Get0(sm, "totalBankWithdrawals")),
               NumExc(Get0(sm, "netBankFlow")),
               NumExc(Get0(sm, "totalAssetPurchases")), NumExc(Get0(sm, "totalAssetSales")),
               NumExc(Get0(sm, "netAssetTrading")),
               IF Truthy(yearly)
               THEN FirstExc(<<ItemsExc(yearly), LoopExc(ItemsOf(yearly), YearExc)>>)
               ELSE NoExc>>)

CashflowLines(sm, yearly) ==
    << Str("# Cash Flow Analysis"), <<>>, Str("## Summary"),
       <<"- **Total Money In:** ">> \o Usd(Get0(sm, "totalMoneyIn")),
       <<"- **Total Money Out:** ">> \o Usd(Get0(sm, "totalMoneyOut")),
       <<"- **Net Flow:** ">> \o Usd(Get0(sm, "netMoneyFlow")),
       <<>>,
       <<"- Bank Deposits: ">> \o Usd(Get0(sm, "totalBankDeposits")),
       <<"- Bank Withdrawals: ">> \o Usd(Get0(sm, "totalBankWithdrawals")),
       <<"- Net Bank Flow: ">> \o Usd(Get0(sm, "netBankFlow")),
       <<>>,
       <<"- Asset Purchases: ">> \o Usd(Get0(sm, "totalAssetPurchases")),
       <<"- Asset Sales: ">> \o Usd(Get0(sm, "totalAssetSales")),
       <<"- Net Trading: ">> \o Usd(Get0(sm, "netAssetTrading")),
       <<>>,
       <<"- Taxable Events: ">> \o PyStr(Get0(sm, "totalTaxableEvents")),
       <<"- Total Transactions: ">> \o PyStr(Get0(sm, "totalTransactions")) >>
        \o (IF Truthy(yearly)
            THEN << <<>>, Str("## Yearly Breakdown"), <<>> >> \o Each(ItemsOf(yearly), YearLine)
            ELSE <<>>)

\* the handler from s = data.get("summary", {}) on
cashflow_narrative(sm, yearly) == Lines(CashflowExc(sm, yearly), CashflowLines(sm, yearly))

cashflow_format(params, data) ==
    IF IsJson(params) THEN Ret(json_dumps(data))
    ELSE IF GetExc(data) # NoExc THEN Raise(GetExc(data))
    ELSE cashflow_narrative(PyGet(data, Str("summary"), JObj(<<>>)),
                            PyGet(data, Str("yearlyFlow"), JObj(<<>>)))

\* ---- portfolio_get_tax_report ----

EventExc(ev) ==
    FirstExc(<<GetExc(ev), SliceExc(PyGet(ev, Str("datetime"), JStr(<<>>))),
               NumExc(Get0(ev, "gainLossUsd")), NumExc(Get0(ev, "gainLossRon"))>>)

\* emoji = "+" if gain_usd >= 0 else ""
GainSign(gain_usd) == IF ToMicro(gain_usd) >= 0 THEN <<"+">> ELSE <<>>

\* "{x:,.2f} RON"
Ron(v) == FormatFixed(ToMicro(v), 2, TRUE) \o <<" RON">>

EventLine(ev) ==
    <<"- **">> \o PyStr(PySlice(PyGet(ev, Str("datetime"), JStr(<<>>)), DateLen))
        \o <<"** (TX #">> \o PyStr(PyGet(ev, Str("transactionId"), JStr(Str("?"))))
        \o <<"): ", "Gain/Loss ">> \o GainSign(Get0(ev, "gainLossUsd")) \o Usd(Get0(ev, "gainLossUsd"))
        \o <<" / ">> \o GainSign(Get0(ev, "gainLossUsd")) \o Ron(Get0(ev, "gainLossRon"))

\* f"\n_Showing 30 of {len(events)} events. Use JSON format for all._"
EventNotice(n) ==
    <<"\n_Showing 30 of ">> \o IntToChars(n) \o <<" events. Use JSON format for all._">>

\* events[:30]
EventsShown(events) == Take(IterItems(events), EventCap)

\* if len(events) > 30
EventsTruncated(n) == n > EventCap

TaxExc(data, events) ==
    FirstExc(<<NumExc(Get0(data, "totalWithdrawalsUsd")), NumExc(Get0(data, "totalWithdrawalsRon")),
               NumExc(Get0(data, "totalCostBasisUsd")), NumExc(Get0(data, "totalCostBasisRon")),
               NumExc(Get0(data, "totalGainLossUsd")), NumExc(Get0(data, "totalGainLossRon")),
               LenExc(events), SliceExc(events), LoopExc(EventsShown(events), EventExc)>>)

TaxLines(params, data, events) ==
    << <<"# Romania Tax Report - ">> \o IntToChars(params.year), <<>>,
       <<"**Strategy:** Asset=", params.asset_strategy, ", Cash=", params.cash_strategy>>,
       <<>>, Str("## Totals"),
       <<"- **Total Withdrawals (USD):** ">> \o Usd(Get0(data, "totalWithdrawalsUsd")),
       <<"- **Total Withdrawals (RON):** ">> \o Ron(Get0(data, "totalWithdrawalsRon")),
       <<"- **Total Cost Basis (USD):** ">> \o Usd(Get0(data, "totalCostBasisUsd")),
       <<"- **Total Cost Basis (RON):** ">> \o Ron(Get0(data, "totalCostBasisRon")),
       <<"- **Total Gain/Loss (USD):** ">> \o Usd(Get0(data, "totalGainLossUsd")),
       <<"- **Total Gain/Loss (RON):** ">> \o Ron(Get0(data, "totalGainLossRon")),
       <<>>,
       <<"## Taxable Events (">> \o IntToChars(PyLen(events)) \o <<")">>,
       <<>> >>
        \o Each(EventsShown(events), EventLine)
        \o (IF EventsTruncated(PyLen(events)) THEN <<EventNotice(PyLen(events))>> ELSE <<>>)

\* the handler from events = data.get("taxableEvents", []) on
tax_report_narrative(params, data, events) ==
    Lines(TaxExc(data, events), TaxLines(params, data, events))

tax_report_format(params, data) ==
    IF IsJson(params) THEN Ret(json_dumps(data))
    ELSE IF GetExc(data) # NoExc THEN Raise(GetExc(data))
    ELSE tax_report_narrative(params, data, PyGet(data, Str("taxableEvents"), JArr(<<>>)))

\* query_params of portfolio_get_tax_report
tax_report_query(params) ==
    LET q == <<M(Str("year"), JStr(IntToChars(params.year))),
               M(Str("assetStrategy"), JStr(Str(params.asset_strategy))),
               M(Str("cashStrategy"), JStr(Str(params.cash_strategy)))>>
    IN  IF params.portfolio_id # None
        THEN Append(q, M(Str("portfolioId"), JStr(IntToChars(params.portfolio_id[1]))))
        ELSE q

\* ---- portfolio_get_prices ----

PriceExc(pair) == NumExc(pair.val)

PriceLine(pair) == <<"- **">> \o pair.k \o <<"**: ">> \o Usd(pair.val)

\* the handler from prices = data.get("prices", {}) on
prices_narrative(params, prices) ==
    IF ~Truthy(prices) THEN Ret(<<"No prices found for: ">> \o params.symbols)
    ELSE Lines(FirstExc(<<ItemsExc(prices), LoopExc(ItemsOf(prices), PriceExc)>>),
               <<Str("# Current Prices"), <<>> >> \o Each(ItemsOf(prices), PriceLine))

prices_format(params, data) ==
    IF GetExc(data) # NoExc THEN Raise(GetExc(data))
    ELSE prices_narrative(params, PyGet(data, Str("prices"), JObj(<<>>)))

\* ---- portfolio_get_price_history ----

\* {"count": len(prices), "prices": prices}
CountAndSeries(prices) ==
    JObj(<<M(Str("count"), JInt(PyLen(prices))), M(Str("prices"), prices)>>)

\* the handler from prices = data.get("prices", []) on
price_history_narrative(params, prices) ==
    IF ~Truthy(prices)
    THEN Ret(<<"No historical prices found for ">> \o params.symbols \o <<" in that range.">>)
    ELSE IF LenExc(prices) # NoExc THEN Raise(LenExc(prices))
    ELSE Ret(json_dumps(CountAndSeries(prices)))

price_history_format(params, data) ==
    IF GetExc(data) # NoExc THEN Raise(GetExc(data))
    ELSE price_history_narrative(params, PyGet(data, Str("prices"), JArr(<<>>)))

----------------------------------------------------------------------------
(* Dispatcher: the ten tool handlers                                       *)

Tools == {"portfolio_get_holdings", "portfolio_get_history", "portfolio_list_portfolios",
          "portfolio_list_transactions", "portfolio_add_transaction",
          "portfolio_delete_transaction", "portfolio_get_cashflow",
          "portfolio_get_tax_report", "portfolio_get_prices", "portfolio_get_price_history"}

\* the input model of each tool
Validate(t, raw) ==
    CASE t = "portfolio_get_holdings" -> GetHoldingsInput(raw)
      [] t = "portfolio_get_history" -> GetHistoryInput(raw)
      [] t = "portfolio_list_portfolios" -> ListPortfoliosInput(raw)
      [] t = "portfolio_list_transactions" -> ListTransactionsInput(raw)
      [] t = "portfolio_add_transaction" -> AddTransactionInput(raw)
      [] t = "portfolio_delete_transaction" -> DeleteTransactionInput(raw)
      [] t = "portfolio_get_cashflow" -> GetCashflowInput(raw)
      [] t = "portfolio_get_tax_report" -> GetTaxReportInput(raw)
      [] t = "portfolio_get_prices" -> GetPricesInput(raw)
      [] t = "portfolio_get_price_history" -> GetPriceHistoryInput(raw)

\* a client that sends the request again
client_send_twice(sent, req) == Append(Append(sent, req), req)

\* client.get / client.post / client.delete: the one request an _api_*
\* primitive puts on the wire
client_send(sent, req) == Append(sent, req)

----------------------------------------------------------------------------
(* Environment: the inputs an agent sends and the outcomes a backend       *)
(* request can have, drawn from small sets                                 *)

\* how many entries beyond the cap a list payload may hold
MaxOver == 1

\* how many invocations may be in flight at once
MaxInFlight == 2

\* how many characters beyond DetailCap a response text may hold
TextOver == 1

BaseUrls == {Str("http://localhost:3000"), Str("https://portfolio.example")}

DateA == <<"2", "0", "2", "5", "-", "0", "1", "-", "1", "5", "T", "1", "0", ":", "3", "0", ":", "0", "0", "Z">>

DayA == <<"2", "0", "2", "5", "-", "0", "1", "-", "1", "5">>

DayB == <<"2", "0", "2", "5", "-", "0", "1", "-", "1", "6">>

BTC == <<"B", "T", "C">>

ETH == <<"E", "T", "H">>

\* ---- raw inputs ----

FormatInputs == {None, Some("json"), Some("xml")}

SymbolInputs ==
    {None, Some(<<>>), Some(<<" ", " ">>), Some(<<",">>), Some(<<" ", ",", " ", ",">>),
     Some(<<" ", "b", "t", "c", ",", " ", "e", "t", "h", " ", ",">>), Some(BTC),
     Some([i \in 1..(SymbolsMax + 1) |-> "A"])}

RawInputs ==
    [t \in Tools |->
    CASE t = "portfolio_get_holdings" ->
            [portfolio_id : {None, Some(0), Some(2)}, response_format : FormatInputs]
      [] t = "portfolio_get_history" ->
            [portfolio_id : {None}, days : {None, Some(0), Some(90), Some(91)},
             response_format : {None, Some("json")}]
      [] t = "portfolio_list_portfolios" -> [response_format : FormatInputs \cup {Some("markdown")}]
      [] t = "portfolio_list_transactions" ->
            [portfolio_id : {None, Some(3)}, response_format : FormatInputs]
      [] t = "portfolio_add_transaction" ->
            [portfolio_id : {None}, type : {Some("Deposit"), Some("Swap"), Some("Buy")},
             datetime : {Some(<<" ">> \o DateA)},
             to_asset : {Some(<<" ", "b", "t", "c">>), Some(<<" ">>)},
             to_quantity : {Some(500000), Some(-1)},
             to_price_usd : {None, Some(0), Some(1500250000)},
             from_asset : {None, Some(<<"e", "t", "h", " ">>)},
             from_quantity : {None, Some(1000000)},
             from_price_usd : {None},
             fees_usd : {None, Some(0)},
             notes : {None}]
            \cup
            [portfolio_id : {Some(2)}, type : {Some("Swap")},
             datetime : {Some(DateA)},
             to_asset : {Some(BTC)},
             to_quantity : {Some(0)},
             to_price_usd : {None},
             from_asset : {None, Some(ETH)},
             from_quantity : {None},
             from_price_usd : {None, Some(0), Some(2000000000)},
             fees_usd : {None},
             notes : {None, Some(<<" ", "d", "c", "a">>)}]
      [] t = "portfolio_delete_transaction" -> [transaction_id : {None, Some(0), Some(7)}]
      [] t = "portfolio_get_cashflow" ->
            [portfolio_id : {None, Some(0)}, response_format : FormatInputs]
      [] t = "portfolio_get_tax_report" ->
            [year : {None, Some(2014), Some(2030), Some(2031)}, portfolio_id : {None},
             asset_strategy : {None, Some("HIFO"), Some("AVG")}, cash_strategy : {None},
             response_format : {None, Some("json")}]
      [] t = "portfolio_get_prices" -> [symbols : SymbolInputs]
      [] t = "portfolio_get_price_history" ->
            [symbols : {v \in SymbolInputs : v = None \/ Len(v[1]) <= SymbolsMax},
             start_timestamp : {None, Some(1700000000)},
             end_timestamp : {Some(1700086400)}]]

\* ---- payloads of a 2xx response ----

\* values of the wrong shape for every handler
OddPayloads == {JNull, JArr(<<>>), JObj(<<>>), JInt(5)}

\* transaction i of a list; kinds, prices, fees and notes vary with i
TxEntry(i, withId) ==
    JObj((IF withId THEN <<M(Str("id"), JInt(i))>> ELSE <<>>)
         \o <<M(Str("type"), JStr(Str(<<"Swap", "Deposit", "Withdrawal">>[(i % 3) + 1]))),
              M(Str("datetime"), JStr(DateA)),
              M(Str("toAsset"), JStr(BTC)),
              M(Str("toQuantity"), JFloat(500000))>>
         \o (IF i % 3 = 0 THEN <<M(Str("fromAsset"), JStr(ETH)), M(Str("fromQuantity"), JInt(2))>>
             ELSE <<>>)
         \o (IF i % 2 = 0 THEN <<M(Str("toPriceUsd"), JFloat(1500250000))>> ELSE <<>>)
         \o (IF i % 4 = 0 THEN <<M(Str("feesUsd"), JFloat(250000)), M(Str("notes"), JStr(Str("dca")))>>
             ELSE <<>>))

\* n transactions, oldest first; entry bad (0: none) carries no id
TxList(n, bad) == JArr([i \in 1..n |-> TxEntry(i, i # bad)])

ListLens(cap) == {1, 2, cap} \cup ((cap + 1)..(cap + MaxOver))

TxPayloads ==
    {TxList(n, bad) : n \in ListLens(TxCap), bad \in {0, 1}}
        \cup {TxList(n, n) : n \in ListLens(TxCap)}
        \cup OddPayloads \cup {JObj(<<M(ErrorKey, JStr(Str("no portfolio")))>>)}

\* taxable event i; the signs of the two amounts vary with i; a bad event
\* has a null gainLossUsd
EvEntry(i, good) ==
    JObj(<<M(Str("transactionId"), JInt(i)),
           M(Str("datetime"), JStr(DateA)),
           M(Str("gainLossUsd"), IF good THEN JFloat((IF i % 2 = 0 THEN -1 ELSE 1) * 12500000)
                                 ELSE JNull),
           M(Str("gainLossRon"), JFloat((IF i % 4 < 2 THEN 1 ELSE -1) * 57500000))>>)

TaxReport(n, bad) ==
    JObj(<<M(Str("totalWithdrawalsUsd"), JFloat(1000500000)),
           M(Str("totalWithdrawalsRon"), JFloat(2000750000)),
           M(Str("totalGainLossUsd"), JFloat(-500000)),
           M(Str("taxableEvents"), JArr([i \in 1..n |-> EvEntry(i, i # bad)]))>>)

TaxPayloads ==
    {TaxReport(n, bad) : n \in ListLens(EventCap) \cup {0}, bad \in {0, 1}}
        \cup {TaxReport(n, n) : n \in ListLens(EventCap)}
        \cup OddPayloads \cup {JObj(<<M(Str("taxableEvents"), JInt(3))>>)}

Holding(asset, withAsset) ==
    JObj((IF withAsset THEN <<M(Str("asset"), JStr(asset))>> ELSE <<>>)
         \o <<M(Str("quantity"), JFloat(1500000)), M(Str("currentPrice"), JInt(1000)),
              M(Str("currentValue"), JInt(1500)), M(Str("costBasis"), JFloat(1600500000)),
              M(Str("pnl"), JFloat(-100500000)), M(Str("pnlPercent"), JFloat(-6279000))>>)

HoldingsPayloads ==
    {JObj(<<M(Str("summary"), JObj(<<M(Str("totalValue"), JInt(1500))>>)),
            M(Str("holdings"), JArr(<<>>))>>),
     JObj(<<M(Str("summary"), JObj(<<M(Str("totalValue"), JInt(1500)),
                                     M(Str("totalPnlPercent"), JFloat(-6279000))>>)),
            M(Str("holdings"), JArr(<<Holding(BTC, TRUE), Holding(ETH, TRUE)>>)),
            M(Str("allocation"), JArr(<<JObj(<<M(Str("asset"), JStr(BTC)),
                                               M(Str("percentage"), JFloat(62500000)),
                                               M(Str("value"), JInt(1500))>>)>>))>>),
     JObj(<<M(Str("holdings"), JArr(<<Holding(BTC, FALSE)>>))>>),
     JObj(<<M(Str("summary"), JNull), M(Str("holdings"), JArr(<<Holding(BTC, TRUE)>>))>>)}
        \cup OddPayloads

HistoryEntry(day, value) == JObj(<<M(Str("date"), JStr(day)), M(Str("totalValue"), value)>>)

HistoryPayloads ==
    {JObj(<<M(Str("history"), JArr(<<>>))>>),
     JObj(<<M(Str("history"), JArr(<<HistoryEntry(DayA, JInt(0))>>))>>),
     JObj(<<M(Str("history"), JArr(<<HistoryEntry(DayA, JInt(10)), HistoryEntry(DayB, JFloat(12500000))>>))>>),
     JObj(<<M(Str("history"), JArr(<<HistoryEntry(DayA, JFloat(-2000000)), HistoryEntry(DayB, JInt(1))>>))>>),
     JObj(<<M(Str("history"), JArr(<<HistoryEntry(DayA, JNull)>>))>>),
     JObj(<<M(Str("history"), JInt(7))>>)}
        \cup OddPayloads

PortfolioPayloads ==
    {JArr(<<JObj(<<M(Str("id"), JInt(1)), M(Str("name"), JStr(Str("Main"))),
                   M(Str("createdAt"), JStr(DayA))>>),
            JObj(<<M(Str("id"), JInt(2)), M(Str("name"), JStr(Str("Cold")))>>)>>),
     JArr(<<JObj(<<M(Str("id"), JInt(1))>>)>>),
     JObj(<<M(ErrorKey, JStr(Str("no user")))>>)}
        \cup OddPayloads

CashflowPayloads ==
    {JObj(<<M(Str("summary"), JObj(<<M(Str("totalMoneyIn"), JFloat(2000500000)),
                                     M(Str("netMoneyFlow"), JFloat(-250000)),
                                     M(Str("totalTransactions"), JInt(12))>>)),
            M(Str("yearlyFlow"),
              JObj(<<M(<<"2", "0", "2", "4">>, JObj(<<M(Str("netFlow"), JInt(100))>>)),
                     M(<<"2", "0", "2", "3">>, JObj(<<M(Str("totalIn"), JInt(50)),
                                                      M(Str("totalOut"), JFloat(70500000))>>))>>))>>),
     JObj(<<M(Str("summary"), JArr(<<JInt(1)>>))>>),
     JObj(<<M(Str("yearlyFlow"), JArr(<<JInt(2024)>>))>>)}
        \cup OddPayloads

PricesPayloads ==
    {JObj(<<M(Str("prices"), JObj(<<>>))>>),
     JObj(<<M(Str("prices"), JObj(<<M(ETH, JFloat(1500500000)), M(BTC, JFloat(500000))>>))>>),
     JObj(<<M(Str("prices"), JObj(<<M(BTC, JNull)>>))>>),
     JObj(<<M(Str("prices"), JArr(<<JInt(1)>>))>>)}
        \cup OddPayloads

PricePoint(day) ==
    JObj(<<M(Str("asset"), JStr(BTC)), M(Str("date"), JStr(day)), M(Str("price_usd"), JFloat(1500500000))>>)

PriceHistoryPayloads ==
    {JObj(<<M(Str("prices"), JArr(<<>>))>>),
     JObj(<<M(Str("prices"), JArr(<<PricePoint(DayA)>>))>>),
     JObj(<<M(Str("prices"), JArr(<<PricePoint(DayA), PricePoint(DayB)>>))>>),
     JObj(<<M(Str("prices"), JInt(7))>>)}
        \cup OddPayloads

WritePayloads ==
    {JObj(<<M(Str("id"), JInt(12))>>), JObj(<<M(Str("success"), JBool(TRUE))>>)} \cup OddPayloads

Payloads(t) ==
    CASE t = "portfolio_get_holdings" -> HoldingsPayloads
      [] t = "portfolio_get_history" -> HistoryPayloads
      [] t = "portfolio_list_portfolios" -> PortfolioPayloads
      [] t = "portfolio_list_transactions" -> TxPayloads
      [] t = "portfolio_get_cashflow" -> CashflowPayloads
      [] t = "portfolio_get_tax_report" -> TaxPayloads
      [] t = "portfolio_get_prices" -> PricesPayloads
      [] t = "portfolio_get_price_history" -> PriceHistoryPayloads
      [] OTHER -> WritePayloads

\* ---- outcomes ----

Response(status, text) == [exc |-> NoExc, status |-> status, text |-> text]

\* a response text that is not JSON
HtmlText == <<"<", "h", "t", "m", "l", ">", "B", "a", "d", " ", "G", "a", "t", "e", "w", "a", "y", "<", "/", "h", "t", "m", "l", ">">>

\* a response text longer than DetailCap that is not JSON
LongText == [i \in 1..(DetailCap + TextOver) |-> LowerCase[(i % 26) + 1]]

ErrorBodies ==
    {<<>>, HtmlText, LongText,
     BodyText(JArr(<<JStr(<<"d", "o", "w", "n">>)>>)),
     BodyText(JObj(<<M(<<"m", "e", "s", "s", "a", "g", "e">>, JStr(<<"b", "o", "o", "m">>))>>)),
     BodyText(JObj(<<M(ErrorKey, JStr(<<"I", "n", "v", "a", "l", "i", "d", " ", "A", "P", "I", " ", "k", "e", "y">>))>>)),
     BodyText(JObj(<<M(ErrorKey, JNull)>>))}

ErrorStatuses == {302, 400, 401, 403, 404, 429, 500}

TransportErrors ==
    {Exc("ReadTimeout", Str("")), Exc("ConnectTimeout", Str("")),
     Exc("ConnectError", Str("All connection attempts failed")),
     Exc("ReadError", Str("Connection reset by peer"))}

\* a body as sent, with escaped characters in a name:
\* [{"id":3,"name":"My \"Cold\" \\ vault"}]
EscapedBody ==
    <<"[", "{", "\"", "i", "d", "\"", ":", "3", ",", "\"", "n", "a", "m",
      "e", "\"", ":", "\"", "M", "y", " ", "\\", "\"", "C", "o", "l", "d",
      "\\", "\"", " ", "\\", "\\", " ", "v", "a", "u", "l", "t", "\"", "}",
      "]">>

\* what may come back for a request of tool t
Outcomes ==
    [t \in Tools |->
        {Response(200, BodyText(v)) : v \in Payloads(t)}
            \cup {Response(200, EscapedBody), Response(200, HtmlText), Response(204, <<>>)}
            \cup {Response(st, b) : st \in ErrorStatuses, b \in ErrorBodies}
            \cup {[exc |-> e, status |-> 0, text |-> <<>>] : e \in TransportErrors}]

----------------------------------------------------------------------------
(* The state machine: within the lifespan of the server, the invocation    *)
(* the event loop attends runs from the agent's call to the string handed  *)
(* back; the other invocations in flight wait at their await               *)

VARIABLES
    API_BASE_URL,   \* the configured backend address
    lifespan,       \* app_lifespan: "created", "yielded", "returned", "raised"
    clients,        \* the httpx clients constructed so far, each as configured
    tasks,          \* the invocations suspended at their await, as frames
    pc,             \* "idle", "running", "awaiting", "responded", "returned", "raised", "rejected"
    tool,           \* the tool invoked
    raw,            \* its input as sent
    params,         \* its validated input
    sent,           \* the requests put on the wire by this invocation
    outcome,        \* the outcome of the request
    caught,         \* the exception the handler's except clause caught, NoExc when none
    result          \* what the invocation ends with: Ret(string) or Raise(exception)

vars == <<API_BASE_URL, lifespan, clients, tasks, pc, tool, raw, params, sent, outcome, caught, result>>

\* what the lifespan owns
server == <<lifespan, clients, tasks>>

\* DEFAULT_TIMEOUT = 30.0, in seconds
DEFAULT_TIMEOUT == 30

\* the configured API key
API_KEY == <<"k", "e", "y">>

\* httpx.AsyncClient(base_url=..., timeout=DEFAULT_TIMEOUT, headers={"X-API-Key": API_KEY});
\* closes counts the calls of aclose()
AsyncClient(base_url) ==
    [base_url |-> base_url, timeout |-> DEFAULT_TIMEOUT,
     headers |-> <<M(Str("X-API-Key"), API_KEY)>>, closes |-> 0]

\* await client.aclose()
aclose(client) == [client EXCEPT !.closes = @ + 1]

NoOutcome == [exc |-> NoExc, status |-> 0, text |-> <<>>]

Init ==
    /\ API_BASE_URL \in BaseUrls
    /\ lifespan = "created"
    /\ clients = <<>>
    /\ tasks = <<>>
    /\ pc = "idle"
    /\ tool = ""
    /\ raw = <<>>
    /\ params = <<>>
    /\ sent = <<>>
    /\ outcome = NoOutcome
    /\ caught = NoExc
    /\ result = Ret(<<>>)

\* the runtime calls the handler with the validated input v.params, or
\* rejects the call
Called(t, r, v) ==
    /\ tool' = t
    /\ raw' = r
    /\ IF v.ok
       THEN /\ params' = v.params
            /\ pc' = "running"
            /\ result' = result
       ELSE /\ params' = <<>>
            /\ pc' = "rejected"
            /\ result' = Raise(Exc("ValidationError", Str(v.field)))
    /\ UNCHANGED <<API_BASE_URL, sent, outcome, caught>>
    /\ UNCHANGED server

\* the runtime serves a call while the lifespan is open: it validates the
\* arguments against the tool's input model and calls the handler only with
\* a validated input
Invoke(t, r) ==
    /\ pc = "idle"
    /\ lifespan = "yielded"
    /\ Len(tasks) < MaxInFlight
    /\ Called(t, r, Validate(t, r))

\* a handler up to its await: it builds the request req and sends it
HandlerStart(t, req) ==
    /\ pc = "running"
    /\ tool = t
    /\ sent' = client_send(sent, req)
    /\ pc' = "awaiting"
    /\ UNCHANGED <<API_BASE_URL, tool, raw, params, outcome, caught, result>>
    /\ UNCHANGED server

\* the backend answers, or the transport fails
Backend(o) ==
    /\ pc = "awaiting"
    /\ outcome' = o
    /\ pc' = "responded"
    /\ UNCHANGED <<API_BASE_URL, tool, raw, params, sent, caught, result>>
    /\ UNCHANGED server

\* a handler ends with res; exc is what its except clause caught
HandlerEnd(t, exc, res) ==
    /\ pc = "responded"
    /\ tool = t
    /\ caught' = exc
    /\ result' = res
    /\ pc' = IF res.exc = NoExc THEN "returned" ELSE "raised"
    /\ UNCHANGED <<API_BASE_URL, tool, raw, params, sent, outcome>>
    /\ UNCHANGED server

\* a handler from its await on: body is the rest of the try body, and the
\* except clause follows
HandlerFinish(t, body) == HandlerEnd(t, body.exc, try_except(body, API_BASE_URL))

portfolio_get_holdings ==
    \/ HandlerStart("portfolio_get_holdings",
                    _api_get("/api/ticker/portfolio",
                             <<M(Str("portfolioId"), JInt(params.portfolio_id))>>))
    \/ HandlerFinish("portfolio_get_holdings",
                     Then(api_result(outcome), LAMBDA data : holdings_format(params, data)))

portfolio_get_history ==
    \/ HandlerStart("portfolio_get_history",
                    _api_get("/api/ticker/portfolio/history",
                             <<M(Str("portfolioId"), JInt(params.portfolio_id)),
                               M(Str("days"), JInt(params.days))>>))
    \/ HandlerFinish("portfolio_get_history",
                     Then(api_result(outcome), LAMBDA data : history_format(params, data)))

\* the request of portfolio_list_portfolios, which has no parameters
portfolios_query == _api_get("/api/portfolios", <<>>)

portfolio_list_portfolios ==
    \/ HandlerStart("portfolio_list_portfolios", portfolios_query)
    \/ HandlerFinish("portfolio_list_portfolios",
                     Then(api_result(outcome), LAMBDA data : portfolios_format(params, data)))

portfolio_list_transactions ==
    \/ HandlerStart("portfolio_list_transactions",
                    _api_get("/api/transactions", transactions_query(params)))
    \/ HandlerFinish("portfolio_list_transactions",
                     Then(api_result(outcome), LAMBDA data : transactions_format(params, data)))

portfolio_add_transaction ==
    \/ HandlerStart("portfolio_add_transaction",
                    _api_post("/api/transactions", add_transaction_body(params)))
    \/ HandlerFinish("portfolio_add_transaction",
                     Then(api_result(outcome), LAMBDA res : add_transaction_format(params, res)))

portfolio_delete_transaction ==
    \/ HandlerStart("portfolio_delete_transaction",
                    _api_delete("/api/transactions", <<M(Str("id"), JInt(params.transaction_id))>>))
    \/ HandlerFinish("portfolio_delete_transaction",
                     Then(api_result(outcome), LAMBDA res : delete_transaction_format(params, res)))

portfolio_get_cashflow ==
    \/ HandlerStart("portfolio_get_cashflow",
                    _api_get("/api/cashflow", <<M(Str("portfolioId"), JInt(params.portfolio_id))>>))
    \/ HandlerFinish("portfolio_get_cashflow",
                     Then(api_result(outcome), LAMBDA data : cashflow_format(params, data)))

portfolio_get_tax_report ==
    \/ HandlerStart("portfolio_get_tax_report",
                    _api_get("/api/tax/romania", tax_report_query(params)))
    \/ HandlerFinish("portfolio_get_tax_report",
                     Then(api_result(outcome), LAMBDA data : tax_report_format(params, data)))

portfolio_get_prices ==
    \/ HandlerStart("portfolio_get_prices",
                    _api_get("/api/prices/current", <<M(Str("symbols"), JStr(params.symbols))>>))
    \/ HandlerFinish("portfolio_get_prices",
                     Then(api_result(outcome), LAMBDA data : prices_format(params, data)))

portfolio_get_price_history ==
    \/ HandlerStart("portfolio_get_price_history",
                    _api_get("/api/prices", <<M(Str("symbols"), JStr(params.symbols)),
                                              M(Str("start"), JInt(params.start_timestamp)),
                                              M(Str("end"), JInt(params.end_timestamp))>>))
    \/ HandlerFinish("portfolio_get_price_history",
                     Then(api_result(outcome), LAMBDA data : price_history_format(params, data)))

\* the caller has its answer; the next invocation starts from scratch
Done ==
    /\ pc \in {"returned", "raised", "rejected"}
    /\ pc' = "idle"
    /\ tool' = ""
    /\ raw' = <<>>
    /\ params' = <<>>
    /\ sent' = <<>>
    /\ outcome' = NoOutcome
    /\ caught' = NoExc
    /\ result' = Ret(<<>>)
    /\ UNCHANGED API_BASE_URL
    /\ UNCHANGED server

\* app_lifespan up to its yield: the client is constructed and handed to
\* the runtime as lifespan state
LifespanEnter ==
    /\ lifespan = "created"
    /\ clients' = Append(clients, AsyncClient(API_BASE_URL))
    /\ lifespan' = "yielded"
    /\ UNCHANGED <<API_BASE_URL, tasks, pc, tool, raw, params, sent, outcome, caught, result>>

\* a lifespan without try/finally: the statement after the yield runs only
\* when the body of the context ends normally
lifespan_exit_unguarded(how, cs) ==
    IF how = "exception" THEN cs ELSE [i \in 1..Len(cs) |-> aclose(cs[i])]

\* try: yield {"http": client}  finally: await client.aclose()
\* how the body of the context ended: "shutdown" or "exception"
lifespan_exit(how, cs) == [i \in 1..Len(cs) |-> aclose(cs[i])]

\* the runtime leaves the lifespan, at shutdown or on an exception raised
\* while serving; the invocation being attended is cancelled with it, and
\* those suspended at their await are never resumed
LifespanExit(how) ==
    /\ lifespan = "yielded"
    /\ clients' = lifespan_exit(how, clients)
    /\ lifespan' = IF how = "exception" THEN "raised" ELSE "returned"
    /\ tasks' = tasks
    /\ pc' = "idle"
    /\ tool' = ""
    /\ raw' = <<>>
    /\ params' = <<>>
    /\ sent' = <<>>
    /\ outcome' = NoOutcome
    /\ caught' = NoExc
    /\ result' = Ret(<<>>)
    /\ UNCHANGED API_BASE_URL

\* the event loop leaves the invocation at its await, "await client.get(...)"
\* and the like, the only point where a handler gives up control; its
\* frame waits among the tasks
Suspend ==
    /\ pc = "awaiting"
    /\ lifespan = "yielded"
    /\ Len(tasks) < MaxInFlight
    /\ tasks' = Append(tasks, [tool |-> tool, raw |-> raw, params |-> params, sent |-> sent])
    /\ pc' = "idle"
    /\ tool' = ""
    /\ raw' = <<>>
    /\ params' = <<>>
    /\ sent' = <<>>
    /\ UNCHANGED <<API_BASE_URL, lifespan, clients, outcome, caught, result>>

\* the event loop takes up task i again at its await
Resume(i) ==
    /\ pc = "idle"
    /\ lifespan = "yielded"
    /\ tasks' = [k \in 1..(Len(tasks) - 1) |-> IF k < i THEN tasks[k] ELSE tasks[k + 1]]
    /\ pc' = "awaiting"
    /\ tool' = tasks[i].tool
    /\ raw' = tasks[i].raw
    /\ params' = tasks[i].params
    /\ sent' = tasks[i].sent
    /\ UNCHANGED <<API_BASE_URL, lifespan, clients, outcome, caught, result>>

Next ==
    \/ LifespanEnter
    \/ \E how \in {"shutdown", "exception"} : LifespanExit(how)
    \/ \E t \in Tools : \E r \in RawInputs[t] : Invoke(t, r)
    \/ portfolio_get_holdings
    \/ portfolio_get_history
    \/ portfolio_list_portfolios
    \/ portfolio_list_transactions
    \/ portfolio_add_transaction
    \/ portfolio_delete_transaction
    \/ portfolio_get_cashflow
    \/ portfolio_get_tax_report
    \/ portfolio_get_prices
    \/ portfolio_get_price_history
    \/ \E o \in (IF tool \in Tools THEN Outcomes[tool] ELSE {}) : Backend(o)
    \/ Done

Spec == Init /\ [][Next]_vars

----------------------------------------------------------------------------
(* The currency formatter on its own: _fmt_usd called on a value drawn     *)
(* from around its tier boundary and around the amounts where rounding and *)
(* grouping change the digits.  raw is the value, in millionths, result    *)
(* the string returned                                                     *)

\* how far around each amount the values are drawn, in millionths
Spread == 8

\* the amounts: 0, the boundary 1, 1.005, 999.995, 1000 and 1,234.56789
Amounts == {0, Micro, Micro + 5000, 1000 * Micro - 5000, 1000 * Micro, 1234567890}

CurrencyValues ==
    {sgn * (a + d) : sgn \in {-1, 1}, a \in Amounts, d \in (0 - Spread)..Spread}

FormatInit ==
    /\ API_BASE_URL \in BaseUrls
    /\ lifespan = "created"
    /\ clients = <<>>
    /\ tasks = <<>>
    /\ pc = "idle"
    /\ tool = "_fmt_usd"
    /\ raw \in CurrencyValues
    /\ params = <<>>
    /\ sent = <<>>
    /\ outcome = NoOutcome
    /\ caught = NoExc
    /\ result = Ret(<<>>)

\* the call _fmt_usd(value)
FormatUsd ==
    /\ pc = "idle"
    /\ tool = "_fmt_usd"
    /\ result' = Ret(_fmt_usd(raw))
    /\ pc' = "returned"
    /\ UNCHANGED <<API_BASE_URL, tool, raw, params, sent, outcome, caught>>
    /\ UNCHANGED server

FormatNext == FormatUsd

FormatSpec == FormatInit /\ [][FormatNext]_vars

----------------------------------------------------------------------------
(* Properties.  They read the state of the invocation: the exception the   *)
(* except clause caught, the outcome of the request, the string returned   *)

StartsWith(cs, prefix) == Len(cs) >= Len(prefix) /\ SubSeq(cs, 1, Len(prefix)) = prefix

Contains(cs, part) == \E k \in 0..(Len(cs) - Len(part)) : SubSeq(cs, k + 1, k + Len(part)) = part

\* every segment of v is a string
IsString(v) == \A k \in 1..Len(v) : v[k] \in STRING

\* the handler has returned after its except clause caught an exception
Diagnosed == pc = "returned" /\ caught # NoExc

\* the handler has returned after the except clause caught a status failure
StatusFailed == Diagnosed /\ caught.type = "HTTPStatusError"

\* the request was answered with a 2xx status
Success == outcome.exc = NoExc /\ outcome.status >= 200 /\ outcome.status <= 299

\* C1: every invocation of a handler ends by returning one string, whatever
\* the outcome of the backend call; no exception leaves the handler.
C1_HandlerReturnsString ==
    /\ pc # "raised"
    /\ pc = "returned" => result.exc = NoExc /\ IsString(result.val)

\* a payload whose formatting raised is answered with a string
C1_Witness == pc = "returned" /\ Success /\ caught.type = "KeyError"

\* r returns a string that begins with "Error:" and raises nothing
IsDiagnostic(r) == r.exc = NoExc /\ IsString(r.val) /\ StartsWith(r.val, <<"Error: ">>)

\* C2: _handle_error is total: on every failure a handler hands it, it
\* returns a string and raises nothing, and the string begins with "Error:".
C2_ClassifierTotal == caught # NoExc => IsDiagnostic(_handle_error(caught, API_BASE_URL))

\* a status failure whose body is JSON but no object
C2_Witness ==
    StatusFailed /\ json_loads(caught.text).ok /\ json_loads(caught.text).val.t = "arr"

\* the structured error field of a response text: Some(field) when the text
\* is a JSON object that has the field, None otherwise
FieldOf(parsed) ==
    IF parsed.ok /\ parsed.val.t = "obj" /\ HasKey(parsed.val.items, ErrorKey)
    THEN Some(PyGet(parsed.val, ErrorKey, JNull))
    ELSE None

ErrorField(text) == FieldOf(json_loads(text))

\* C3: a status failure is phrased by its status code (401 authentication,
\* with the backend's detail; 403 permission; 404 not found; 429 rate limit,
\* wait and retry; any other status the generic template with the code), a
\* timeout by the timed-out message, a connection failure by a message that
\* names the configured backend address; the body never changes the kind.
C3_PhrasingByKind ==
    Diagnosed =>
        CASE caught.type = "HTTPStatusError" /\ caught.status = 401 ->
                /\ StartsWith(result.val, <<"Error: ", "Authentication failed.">>)
                /\ (ErrorField(caught.text) # None /\ ErrorField(caught.text)[1].t = "str")
                       => Contains(result.val, ErrorField(caught.text)[1].s)
          [] caught.type = "HTTPStatusError" /\ caught.status = 403 ->
                StartsWith(result.val, <<"Error: ", "Permission denied.">>)
          [] caught.type = "HTTPStatusError" /\ caught.status = 404 ->
                StartsWith(result.val, <<"Error: ", "Not found.">>)
          [] caught.type = "HTTPStatusError" /\ caught.status = 429 ->
                result.val = <<"Error: ", "Rate limit exceeded.", " Wait a moment and retry.">>
          [] caught.type = "HTTPStatusError" /\ caught.status \notin {401, 403, 404, 429} ->
                StartsWith(result.val, <<"Error: ", "API returned status ">>
                                           \o IntToChars(caught.status) \o <<".">>)
          [] caught.type \in TimeoutClasses ->
                result.val = <<"Error: ", "Request timed out.", " Is your Portfolio Tracker running?">>
          [] caught.type = "ConnectError" ->
                /\ StartsWith(result.val, <<"Error: ", "Cannot connect to ">> \o API_BASE_URL)
                /\ Contains(result.val, Str("Make sure your Portfolio Tracker Web is running."))
          [] OTHER -> StartsWith(result.val, <<"Error: ">>)

\* a 401 whose body carries a detail field
C3_Witness ==
    /\ StatusFailed /\ caught.status = 401
    /\ ErrorField(caught.text) # None /\ ErrorField(caught.text)[1].t = "str"

\* the number of segments of a status diagnostic before its detail
TemplateLen(status) == IF status \in {401, 403, 404} THEN 3 ELSE 4 + Len(IntToChars(status))

\* the detail a status diagnostic shows
DetailShown == SubSeq(result.val, TemplateLen(caught.status) + 1, Len(result.val))

\* C4: the detail of a status diagnostic is the structured error field of
\* the body when the field exists, and the first 200 characters of the raw
\* text whenever it does not (the body is no JSON, or JSON without the field).
C4_DetailOrRawText ==
    (StatusFailed /\ caught.status # 429) =>
        IF ErrorField(caught.text) = None
        THEN DetailShown = Take(caught.text, DetailCap)
        ELSE ErrorField(caught.text)[1].t = "str" => DetailShown = ErrorField(caught.text)[1].s

\* C5: a rejected invocation sends no request; a handler that was called
\* sends exactly one, whatever the outcome: none is sent again.
C5_OneRequest ==
    /\ pc \in {"idle", "rejected", "running"} => sent = <<>>
    /\ pc \in {"awaiting", "responded", "returned", "raised"} => Len(sent) = 1

\* a handler has returned after a timeout and one request
C5_Witness == Diagnosed /\ caught.type \in TimeoutClasses /\ Len(sent) = 1

PriceTools == {"portfolio_get_prices", "portfolio_get_price_history"}

\* every comma-separated segment of cs is blank
AllBlank(cs) == \A k \in 1..Len(cs) : cs[k] \in Whitespace \cup {","}

\* C6: the price tools reject a symbols input that is empty after
\* normalization, before any network call.
C6_BlankSymbolsRejected ==
    (tool \in PriceTools /\ raw.symbols # None /\ AllBlank(raw.symbols[1]))
        => (pc = "rejected" /\ sent = <<>>)

\* the handler of tool t has returned in narrative mode on a 2xx response
\* that carries a payload
Narrated(t) ==
    /\ tool = t /\ pc = "returned" /\ params.response_format = "markdown"
    /\ Success /\ json_loads(outcome.text).ok

\* the number of entries of the collection v
Count(v) == IF v.t = "arr" THEN Len(v.items) ELSE 0

\* the transactions returned, the taxable events returned
Transactions == json_loads(outcome.text).val

TaxableEvents == PyGet(json_loads(outcome.text).val, Str("taxableEvents"), JArr(<<>>))

\* the output holds the notice: its opening, the total n and its closing
HasNotice(opening, n, closing) == Contains(result.val, <<opening>> \o IntToChars(n) \o <<closing>>)

\* the output holds the opening of a notice
HasOpening(opening) == \E k \in 1..Len(result.val) : result.val[k] = opening

\* the notice is there, with the true total, exactly when n exceeds cap
NoticeIff(opening, closing, n, cap) ==
    IF n > cap THEN HasNotice(opening, n, closing) ELSE ~HasOpening(opening)

TxNoticeIff ==
    NoticeIff("\n_Showing last 50 of ", " transactions. Use JSON format for all._",
              Count(Transactions), 50)

EventNoticeIff ==
    NoticeIff("\n_Showing 30 of ", " events. Use JSON format for all._", Count(TaxableEvents), 30)

Breaks(cs) == SelectSeq([k \in 1..Len(cs) |-> k], LAMBDA k : cs[k] = "\n")

\* line m of cs, where breaks are the line breaks of cs
LineAt(cs, breaks, m) ==
    SubSeq(cs, IF m = 1 THEN 1 ELSE breaks[m - 1] + 1,
               IF m > Len(breaks) THEN Len(cs) ELSE breaks[m] - 1)

\* the lines of cs
LinesAt(cs, breaks) == [m \in 1..(Len(breaks) + 1) |-> LineAt(cs, breaks, m)]

LinesOf(cs) == LinesAt(cs, Breaks(cs))

\* the lines of the output that render a transaction
TxLinesShown == SelectSeq(LinesOf(result.val), LAMBDA line : StartsWith(line, <<"- **">>))

\* line is the line of a transaction whose id is id
EndsWithId(line, id) ==
    /\ Len(line) >= Len(IntToChars(id)) + 2
    /\ SubSeq(line, Len(line) - Len(IntToChars(id)) - 1, Len(line))
           = <<" (ID: ">> \o IntToChars(id) \o <<")">>

\* the lines render the last Len(lines) of the entries, in their order
RendersLast(lines, entries) ==
    \A k \in 1..Len(lines) :
        EndsWithId(lines[k], PyGet(entries[Len(entries) - Len(lines) + k], Str("id"), JNull).n)

\* lines are min(n, 50) lines, those of the last min(n, 50) of the n entries
\* in their order, and header reports n
LastFifty(header, lines, entries, n) ==
    /\ Len(lines) = Min(n, 50)
    /\ RendersLast(lines, entries)
    /\ header = <<"# Transactions (">> \o IntToChars(n) \o <<" total)">>

\* the transactions v, their lines in the output and its first line
TxRendered(v, lines) ==
    (v.t = "arr" /\ Len(v.items) >= 1) =>
        LastFifty(lines[1], SelectSeq(lines, LAMBDA line : StartsWith(line, <<"- **">>)),
                  v.items, Len(v.items))

ModeTools ==
    {"portfolio_get_holdings", "portfolio_get_history", "portfolio_list_portfolios",
     "portfolio_list_transactions", "portfolio_get_cashflow", "portfolio_get_tax_report"}

\* a tool with an output mode has returned in structured mode on a 2xx
\* response that carries a payload
Echoed ==
    /\ tool \in ModeTools /\ pc = "returned" /\ params.response_format = "json"
    /\ Success /\ json_loads(outcome.text).ok

\* out, parsed, is the payload
EchoOf(payload, out) == out.ok /\ out.val = payload.val

\* C9: structured-mode output is a lossless echo: parsed as JSON, the string
\* returned is the backend payload, an empty payload included.
C9_LosslessEcho ==
    Echoed => (caught = NoExc /\ EchoOf(json_loads(outcome.text), json_loads(result.val)))

\* the echo of a payload with escaped characters, spread over indented lines
C9_Witness ==
    /\ Echoed /\ tool = "portfolio_list_portfolios"
    /\ Contains(outcome.text, <<"\\", "\"">>) /\ Contains(result.val, <<"\n", " ", " ">>)

\* the series of the historical-prices payload
PriceSeries == PyGet(json_loads(outcome.text).val, Str("prices"), JArr(<<>>))

\* C10: on every successful response the historical-prices tool returns a
\* structured echo of the count and the raw series, also when the series is
\* empty or missing; never a sentence.
C10_AlwaysStructured ==
    (/\ tool = "portfolio_get_price_history" /\ pc = "returned"
     /\ Success /\ json_loads(outcome.text).ok /\ json_loads(outcome.text).val.t = "obj"
     /\ PriceSeries.t = "arr")
        => /\ json_loads(result.val).ok
           /\ json_loads(result.val).val
                  = JObj(<<M(Str("count"), JInt(Len(PriceSeries.items))), M(Str("prices"), PriceSeries)>>)

\* the segments of line that follow its segment mark
After(line, mark) == SubSeq(line, IndexIn(line, mark) + 1, Len(line))

\* the segments of an amount that come before its first digit
BeforeDigits(amount) ==
    SubSeq(amount, 1, Cardinality({k \in 1..Len(amount) : \A j \in 1..k : ~IsDigit(amount[j])}))

\* a sign character c stands before the digits
HasSign(lead, c) == \E k \in 1..Len(lead) : lead[k] = c

\* the amount is written with the sign of the number v, and with that alone:
\* "+" when v is not negative, "-" when it is
SignedAs(lead, v) ==
    IF ToMicro(v) >= 0 THEN HasSign(lead, "+") /\ ~HasSign(lead, "-")
    ELSE HasSign(lead, "-") /\ ~HasSign(lead, "+")

\* line k renders event k with each amount under its own sign
EventsSigned(lines, events) ==
    \A k \in 1..Len(lines) :
        /\ SignedAs(BeforeDigits(After(lines[k], "Gain/Loss ")), Get0(events[k], "gainLossUsd"))
        /\ SignedAs(BeforeDigits(After(lines[k], " / ")), Get0(events[k], "gainLossRon"))

\* the lines of the output that render a taxable event
EventLinesOf(lines) == SelectSeq(lines, LAMBDA line : StartsWith(line, <<"- **">>))

\* C11: in the tax-report narrative every rendered taxable event shows its
\* gain/loss in USD and in RON, each with an explicit sign that is the sign
\* of that amount: "+" when it is not negative, "-" when it is, whatever the
\* sign of the other amount.
C11_SignPerAmount ==
    (Narrated("portfolio_get_tax_report") /\ caught = NoExc /\ TaxableEvents.t = "arr")
        => EventsSigned(EventLinesOf(LinesOf(result.val)), TaxableEvents.items)

\* the places of the characters of cs that are no whitespace
Inked(cs) == {k \in 1..Len(cs) : cs[k] \notin Whitespace}

\* cs from its first to its last character that is no whitespace
Trimmed(cs) ==
    IF Inked(cs) = {} THEN <<>>
    ELSE SubSeq(cs, CHOOSE k \in Inked(cs) : \A j \in Inked(cs) : k <= j,
                    CHOOSE k \in Inked(cs) : \A j \in Inked(cs) : k >= j)

\* the places of the commas of cs, between the two ends
Cuts(cs) == <<0>> \o SelectSeq([k \in 1..Len(cs) |-> k], LAMBDA k : cs[k] = ",") \o <<Len(cs) + 1>>

\* the comma-separated segments of cs
SegmentsAt(cs, cuts) == [m \in 1..(Len(cuts) - 1) |-> SubSeq(cs, cuts[m] + 1, cuts[m + 1] - 1)]

SegmentsOf(cs) == SegmentsAt(cs, Cuts(cs))

\* the segments, each trimmed and uppercased, without the empty ones
KeptSegments(segments) ==
    SelectSeq([m \in 1..Len(segments) |-> Upper(Trimmed(segments[m]))], LAMBDA s : s # <<>>)

\* out is the comma-joined list of the segments kept
JoinedFrom(out, kept) == IF kept = <<>> THEN out = <<>> ELSE SegmentsOf(out) = kept

\* the handler of tool t was called: its input was accepted
Accepted(t) == tool = t /\ pc # "rejected"

\* an asset field of the validated input is its input trimmed and
\* uppercased, and normalizing it again changes nothing
CanonicalAsset(given, field) ==
    IF given = None THEN field = None
    ELSE /\ field = Some(Upper(Trimmed(given[1])))
         /\ OptStr(field, TRUE) = field

\* C12: every asset-symbol field leaves validation in canonical form: to_asset
\* and from_asset (when given) of an accepted add-transaction input are the
\* input trimmed and uppercased; symbols of an accepted prices input is the
\* comma-joined list of the input's segments, each trimmed and uppercased,
\* without the empty ones; normalizing a normalized value changes nothing.
C12_CanonicalSymbols ==
    /\ Accepted("portfolio_add_transaction") =>
           /\ CanonicalAsset(raw.to_asset, Some(params.to_asset))
           /\ CanonicalAsset(raw.from_asset, params.from_asset)
    /\ (\E t \in PriceTools : Accepted(t)) =>
           /\ JoinedFrom(params.symbols, KeptSegments(SegmentsOf(raw.symbols[1])))
           /\ validate_symbols(params.symbols) = params.symbols

\* an accepted add-transaction input whose two asset fields were normalized
C12_Witness ==
    /\ Accepted("portfolio_add_transaction")
    /\ params.to_asset = BTC /\ raw.to_asset # Some(BTC)
    /\ params.from_asset = Some(ETH) /\ raw.from_asset # Some(ETH)

\* the optional fields of an add-transaction input and their keys in the body
OptionalKeys ==
    << <<"to_price_usd", "toPriceUsd">>, <<"from_asset", "fromAsset">>,
       <<"from_quantity", "fromQuantity">>, <<"from_price_usd", "fromPriceUsd">>,
       <<"fees_usd", "feesUsd">>, <<"notes", "notes">> >>

\* the value the body carries for a supplied optional field
Carried(name, given) ==
    IF name = "from_asset" THEN JStr(Upper(Trimmed(given)))
    ELSE IF name = "notes" THEN JStr(Trimmed(given))
    ELSE JFloat(given)

\* the members the body always carries
AlwaysCarried(given, body) ==
    /\ PyGet(body, Str("portfolioId"), JNull) = JInt(OrDefault(given.portfolio_id, 1))
    /\ PyGet(body, Str("type"), JNull) = JStr(Str(given.type[1]))
    /\ PyGet(body, Str("datetime"), JNull) = JStr(Trimmed(given.datetime[1]))
    /\ PyGet(body, Str("toAsset"), JNull) = JStr(Upper(Trimmed(given.to_asset[1])))
    /\ PyGet(body, Str("toQuantity"), JNull) = JFloat(given.to_quantity[1])

\* the body carries an optional member exactly when its field was supplied,
\* with the value supplied, and carries nothing else
CarriedIffSupplied(given, body) ==
    /\ \A i \in 1..Len(OptionalKeys) :
           IF given[OptionalKeys[i][1]] = None
           THEN ~HasKey(body.items, Str(OptionalKeys[i][2]))
           ELSE PyGet(body, Str(OptionalKeys[i][2]), JNull)
                    = Carried(OptionalKeys[i][1], given[OptionalKeys[i][1]][1])
    /\ Len(body.items)
           = 5 + Cardinality({i \in 1..Len(OptionalKeys) : given[OptionalKeys[i][1]] # None})

\* the one request of an add-transaction handler
IsPost(req) == req.method = "POST" /\ req.path = "/api/transactions" /\ req.params = <<>>

\* C13: an add-transaction input is never rejected for a from_asset,
\* from_quantity or from_price_usd it omits, a Swap included; the accepted
\* input is sent as one POST whose body always carries portfolioId, type,
\* datetime, toAsset and toQuantity, and carries each of toPriceUsd,
\* fromAsset, fromQuantity, fromPriceUsd, feesUsd and notes exactly when the
\* field was supplied, a supplied 0 included.
C13_LenientSwapBody ==
    tool = "portfolio_add_transaction" =>
        /\ pc = "rejected" => raw[result.exc.msg[1]] # None
        /\ pc \notin {"rejected", "running"} =>
               /\ Len(sent) = 1 /\ IsPost(sent[1])
               /\ AlwaysCarried(raw, JObj(sent[1].json))
               /\ CarriedIffSupplied(raw, JObj(sent[1].json))

\* a Swap without its from_ fields was sent, a price of 0 in its body
C13_Witness ==
    /\ tool = "portfolio_add_transaction" /\ raw.type = Some("Swap") /\ Len(sent) = 1
    /\ raw.from_asset = None /\ raw.from_quantity = None /\ raw.from_price_usd = None
    /\ PyGet(JObj(sent[1].json), Str("toPriceUsd"), JNull) = JFloat(0)

AllDigits(cs) == \A k \in 1..Len(cs) : IsDigit(cs[k])

\* the digits of a rendered amount before its decimal point, any separators
\* with them, and the digits after it
WholePart(cs) == SubSeq(cs, IF cs[2] = "-" THEN 3 ELSE 2, IndexIn(cs, ".") - 1)

DecimalPart(cs) == SubSeq(cs, IndexIn(cs, ".") + 1, Len(cs))

\* digits in groups of three from the right, a comma between the groups
Grouped(w) ==
    /\ w # <<>> /\ IsDigit(w[1])
    /\ \A k \in 1..Len(w) : IF (Len(w) - k) % 4 = 3 THEN w[k] = "," ELSE IsDigit(w[k])

\* the number a sequence of digits and separators writes
Written(w) == CharsToNat(SelectSeq(w, IsDigit))

\* cs is "$", a minus for a negative m, and the digits of |m|
CurrencyOf(cs, m) ==
    /\ Len(cs) >= 5 /\ cs[1] = "$" /\ (cs[2] = "-") = (m < 0)
    /\ IndexIn(cs, ".") > 2

\* two decimals and thousands separators: m to the nearest hundredth
TwoDecimals(cs, m) ==
    /\ CurrencyOf(cs, m)
    /\ Len(DecimalPart(cs)) = 2 /\ AllDigits(DecimalPart(cs))
    /\ Grouped(WholePart(cs))
    /\ 2 * Abs((Written(WholePart(cs)) * 100 + Written(DecimalPart(cs))) * 10000 - Abs(m)) <= 10000

\* six decimals and no separator: m itself
SixDecimals(cs, m) ==
    /\ CurrencyOf(cs, m)
    /\ Len(DecimalPart(cs)) = 6 /\ AllDigits(DecimalPart(cs))
    /\ WholePart(cs) # <<>> /\ AllDigits(WholePart(cs))
    /\ Written(WholePart(cs)) * Micro + Written(DecimalPart(cs)) = Abs(m)

\* C14: _fmt_usd switches precision exactly at |v| = 1: a value with
\* |v| >= 1 is rendered with two decimals and thousands separators, a value
\* with |v| < 1 with six decimals and no separator (0.999999 has six
\* decimals, 1.00 has two).  That the same value yields the same string
\* needs no check: the string is a function of the value alone.
C14_TierAtOne ==
    (tool = "_fmt_usd" /\ pc = "returned") =>
        /\ result.exc = NoExc
        /\ IF Abs(raw) >= Micro THEN TwoDecimals(result.val, raw) ELSE SixDecimals(result.val, raw)

\* the value 1.00 was rendered with two decimals
C14_Witness ==
    /\ tool = "_fmt_usd" /\ pc = "returned" /\ raw = Micro
    /\ result.val = <<"$", "1", ".", "0", "0">>


\* the daily values returned
ValueHistory == PyGet(json_loads(outcome.text).val, Str("history"), JArr(<<>>))

\* the greatest common divisor of a >= 0 and b >= 0
RECURSIVE Gcd(_, _)
Gcd(a, b) == IF b = 0 THEN a ELSE Gcd(b, a % b)

\* the percentage written in the line of the change, from its sign to ")"
PercentWritten(lines) ==
    After(SelectSeq(lines, LAMBDA line : StartsWith(line, <<"**Change:** ">>))[1], " (")

\* the number of hundredths of a percent that p writes, under its sign
Hundredths(p) ==
    (IF p[1] = "-" THEN -1 ELSE 1) * CharsToNat(SelectSeq(p, IsDigit))

\* p writes a signed percentage with two decimals
IsPercent(p) ==
    /\ Len(p) >= 7
    /\ p[1] \in {"+", "-"}
    /\ AllDigits(SubSeq(p, 2, Len(p) - 5))
    /\ p[Len(p) - 4] = "."
    /\ AllDigits(SubSeq(p, Len(p) - 3, Len(p) - 2))
    /\ SubSeq(p, Len(p) - 1, Len(p)) = <<"%", ")">>

\* r hundredths of a percent is change / first * 100 to the nearest
\* hundredth; both amounts are taken in their lowest terms g
NearestPercent(r, change, first, g) ==
    2 * Abs(r * (first \div g) - (change \div g) * 10000) <= Abs(first) \div g

\* the percentage p is the change from first to last, in millionths
PercentOfChange(p, first, last) ==
    /\ IsPercent(p)
    /\ IF first = 0 THEN p = <<"+", "0", ".", "0", "0", "%", ")">>
       ELSE NearestPercent(Hundredths(p), last - first, first, Gcd(Abs(first), Abs(last - first)))

\* C15: in the value-history narrative of a non-empty history the percent
\* change is "+0.00%" when the first value is zero, and otherwise it is
\* (last - first) / first * 100.
C15_PercentOfFirst ==
    (/\ Narrated("portfolio_get_history") /\ caught = NoExc
     /\ ValueHistory.t = "arr" /\ Len(ValueHistory.items) > 0)
        => PercentOfChange(PercentWritten(LinesOf(result.val)),
                           ToMicro(Get0(ValueHistory.items[1], "totalValue")),
                           ToMicro(Get0(ValueHistory.items[Len(ValueHistory.items)], "totalValue")))


\* the entry carries a value under key
Carries(tx, key) == PyGet(tx, Str(key), JNull) # JNull

\* the line shows the quantity and the asset of a deposit or a withdrawal
\* and, when the entry has a unit price, that price
ShowsMovement(line, tx) ==
    /\ Contains(line, Qty(Get0(tx, "toQuantity")) \o <<" ">> \o PyStr(PyGet(tx, Str("toAsset"), JStr(Str("?")))))
    /\ Carries(tx, "toPriceUsd") => Contains(line, <<" @ ">> \o Usd(Get0(tx, "toPriceUsd")))

\* the line shows the fees and the notes that the entry carries
ShowsExtras(line, tx) ==
    /\ Carries(tx, "feesUsd") => Contains(line, <<" (fees: ">> \o Usd(Get0(tx, "feesUsd")) \o <<")">>)
    /\ Carries(tx, "notes") => Contains(line, <<" - ">> \o PyStr(Get0(tx, "notes")))

\* line k describes the entry it renders, by the kind of the entry
Described(lines, entries) ==
    \A k \in 1..Len(lines) :
        /\ (IsType(entries[Len(entries) - Len(lines) + k], "Deposit")
                \/ IsType(entries[Len(entries) - Len(lines) + k], "Withdrawal"))
            => ShowsMovement(lines[k], entries[Len(entries) - Len(lines) + k])
        /\ ShowsExtras(lines[k], entries[Len(entries) - Len(lines) + k])

\* C16: in the list-transactions narrative a Deposit and a Withdrawal both
\* show quantity, asset and, when the entry has a unit price, that price;
\* fees and notes are appended whenever the entry carries them.
C16_MovementShowsPrice ==
    (/\ Narrated("portfolio_list_transactions") /\ caught = NoExc
     /\ Transactions.t = "arr" /\ Len(Transactions.items) > 0)
        => /\ Len(TxLinesShown) <= Len(Transactions.items)
           /\ Described(TxLinesShown, Transactions.items)


----------------------------------------------------------------------------
(* The server under concurrent invocations: the runtime serves every       *)
(* invocation as a task of one event loop, and a task gives up control     *)
(* only at its await.  One accepted input per tool and two outcomes per    *)
(* request keep the interleavings of MaxInFlight invocations enumerable.   *)

\* one accepted input of tool t
ServedInputs == [t \in Tools |-> {CHOOSE r \in RawInputs[t] : Validate(t, r).ok}]

\* a payload of tool t that is a collection with entries, or a timeout
ServedOutcomes ==
    [t \in Tools |->
        {Response(200, BodyText(CHOOSE v \in Payloads(t) : v.t \in {"obj", "arr"} /\ Truthy(v))),
         [exc |-> Exc("ReadTimeout", Str("")), status |-> 0, text |-> <<>>]}]

LifespanNext ==
    \/ LifespanEnter
    \/ \E how \in {"shutdown", "exception"} : LifespanExit(how)
    \/ \E t \in Tools : \E r \in ServedInputs[t] : Invoke(t, r)
    \/ portfolio_get_holdings
    \/ portfolio_get_history
    \/ portfolio_list_portfolios
    \/ portfolio_list_transactions
    \/ portfolio_add_transaction
    \/ portfolio_delete_transaction
    \/ portfolio_get_cashflow
    \/ portfolio_get_tax_report
    \/ portfolio_get_prices
    \/ portfolio_get_price_history
    \/ \E o \in (IF tool \in Tools THEN ServedOutcomes[tool] ELSE {}) : Backend(o)
    \/ Done
    \/ Suspend
    \/ \E i \in 1..Len(tasks) : Resume(i)

LifespanSpec == Init /\ [][LifespanNext]_vars


\* what handler t makes of the parsed payload data for the input p
Narrative(t, p, data) ==
    CASE t = "portfolio_get_holdings" -> holdings_format(p, data)
      [] t = "portfolio_get_history" -> history_format(p, data)
      [] t = "portfolio_list_portfolios" -> portfolios_format(p, data)
      [] t = "portfolio_list_transactions" -> transactions_format(p, data)
      [] t = "portfolio_add_transaction" -> add_transaction_format(p, data)
      [] t = "portfolio_delete_transaction" -> delete_transaction_format(p, data)
      [] t = "portfolio_get_cashflow" -> cashflow_format(p, data)
      [] t = "portfolio_get_tax_report" -> tax_report_format(p, data)
      [] t = "portfolio_get_prices" -> prices_format(p, data)
      [] t = "portfolio_get_price_history" -> price_history_format(p, data)

\* the output of tool t for the raw input r and the backend outcome o, when
\* it is served alone
ServedAlone(t, r, o) ==
    try_except(Then(api_result(o), LAMBDA data : Narrative(t, Validate(t, r).params, data)),
               API_BASE_URL)

\* the one client, as app_lifespan constructs it, closed n times
TheClient(cs, n) ==
    /\ Len(cs) = 1
    /\ cs[1].base_url = API_BASE_URL
    /\ cs[1].timeout = DEFAULT_TIMEOUT
    /\ cs[1].headers = <<M(Str("X-API-Key"), API_KEY)>>
    /\ cs[1].closes = n

\* no client before the lifespan starts, one open client while it serves,
\* the same client closed once after it has ended, however it ended
ConnectionScoped ==
    /\ lifespan = "created" => clients = <<>>
    /\ lifespan = "yielded" => TheClient(clients, 0)
    /\ lifespan \in {"returned", "raised"} => TheClient(clients, 1)

\* a suspended invocation keeps its own validated input and its one request
FramesKept ==
    \A k \in 1..Len(tasks) :
        /\ tasks[k].params = Validate(tasks[k].tool, tasks[k].raw).params
        /\ Len(tasks[k].sent) = 1

\* C17: the shared client is created once when the lifespan starts and
\* closed once when it ends, at shutdown and on an exception alike; while
\* it serves, invocations interleave at their awaits without creating,
\* closing or reconfiguring the client, and the output of each is that of
\* its own input and its own backend outcome served alone.
C17_SharedClientScoped ==
    /\ ConnectionScoped
    /\ Len(tasks) <= MaxInFlight
    /\ FramesKept
    /\ pc \in {"returned", "raised"} => result = ServedAlone(tool, raw, outcome)

\* the server ends on an exception while two invocations of different
\* tools wait at their awaits, and the client is closed once
C17_Witness ==
    /\ lifespan = "raised"
    /\ Len(tasks) >= 2
    /\ tasks[1].tool # tasks[2].tool
    /\ Len(clients) = 1
    /\ clients[1].closes = 1

====
